---- MODULE Spec2Model ----
(***************************************************************************)
(* A model of cc-status-line: the layered configuration resolver           *)
(* (src/src/config.py), the command-line entry display_status_line         *)
(* (src/src/cli.py), the aggregation engine (src/src/core.py), the server  *)
(* liveness detector (src/src/detection.py) and the git status collector   *)
(* (src/src/git.py).                                                       *)
(*                                                                         *)
(* YAML/JSON values are tagged tuples: <<"s", n>> a scalar, <<"l", seq>> a *)
(* sequence, <<"d", f>> a mapping (f a function from its keys to values),  *)
(* <<"none">> Python's None.  A function that may raise returns            *)
(* <<"ok", value>> or <<"raise", exception class>>.                        *)
(***************************************************************************)
EXTENDS Integers, Sequences, FiniteSets, TLC

VARIABLES
    files,        \* config.py: the three layer files on disk, by layer
    merged_ab,    \* _deep_merge(A, B)
    merged_abc,   \* _deep_merge(_deep_merge(A, B), C)
    cfg_result,   \* what get_config returned or raised
    det_configs,  \* detection.py: the list handed to detect_servers
    det_net,      \* the machine the port probes run on
    det_probe,    \* the last _is_port_active call: its port and outcome
    detected,     \* what detect_servers returned or raised, and the probes it ran
    git_config,   \* git.py: the repository entry handed to get_repo_status
    git_repo,     \* the state of that repository's path and of its git queries
    git_result    \* what get_repo_status returned or raised, and the commands it ran

\* One run of display_status_line: where it is, what it was given (the
\* standard input, NO_COLOR, the repositories on disk, the sockets), what it
\* has computed, what it has printed, the step that raised and the exception
\* that left it.
VARIABLES
    pc, stdin, env_no_color, engine, env_disk, env_net, found_repos, found_servers,
    status_lines, printed, failed_step, escaped

\* Two projects: what git remote get-url origin does in each, the directory
\* of each, and the identity get_project_id gave it.
VARIABLES origin, project_dir, identity

\* The per-project files of the configuration directory by identity, the
\* time in seconds, and the last save or delete call with what it returned.
VARIABLES project_files, clock, last_call

configVars == <<files, merged_ab, merged_abc, cfg_result>>
detectVars == <<det_configs, det_net, det_probe, detected>>
gitVars == <<git_config, git_repo, git_result>>

cliVars == <<pc, stdin, env_no_color, engine, env_disk, env_net, found_repos, found_servers,
             status_lines, printed, failed_step, escaped>>

projVars == <<origin, project_dir, identity>>

storeVars == <<project_files, clock, last_call>>

vars == <<configVars, detectVars, gitVars, cliVars, projVars, storeVars>>

-----------------------------------------------------------------------------
(* Values *)

MaxScalar == 1

Scalars == 0 .. MaxScalar

Scalar(n) == <<"s", n>>
List(seq) == <<"l", seq>>
Dict(f) == <<"d", f>>
None == <<"none">>
Absent == <<"absent">>

EmptyDict == <<>>

\* isinstance(v, dict)
IsDict(v) == v[1] = "d"

IsLeaf(v) == v[1] \in {"s", "l"}

\* The record of a call that has been made.
Done(r) == <<"done", r>>

Ok(v) == <<"ok", v>>
Raise(e) == <<"raise", e>>
IsOk(r) == r[1] = "ok"
IsRaise(r) == r[1] = "raise"

\* Every function from a subset of keys into vals: the mappings over keys.
DictsOver(keys, vals) == UNION {[ks -> vals] : ks \in SUBSET keys}

-----------------------------------------------------------------------------
(* ConfigManager._deep_merge *)

\* Sequences of both sides joined instead of replaced.
RECURSIVE DeepMergeConcat(_, _)
DeepMergeConcat(base, override) ==
    [key \in DOMAIN base \cup DOMAIN override |->
        IF key \notin DOMAIN override THEN base[key]
        ELSE IF key \in DOMAIN base /\ IsDict(base[key]) /\ IsDict(override[key])
             THEN Dict(DeepMergeConcat(base[key][2], override[key][2]))
        ELSE IF key \in DOMAIN base /\ base[key][1] = "l" /\ override[key][1] = "l"
             THEN List(base[key][2] \o override[key][2])
        ELSE override[key]]

\* result.update(override): no recursion into nested mappings.
DeepMergeShallow(base, override) ==
    [key \in DOMAIN base \cup DOMAIN override |->
        IF key \notin DOMAIN override THEN base[key] ELSE override[key]]

RECURSIVE DeepMerge(_, _)
DeepMerge(base, override) ==
    [key \in DOMAIN base \cup DOMAIN override |->
        IF key \notin DOMAIN override THEN base[key]
        ELSE IF key \in DOMAIN base /\ IsDict(base[key]) /\ IsDict(override[key])
             THEN Dict(DeepMerge(base[key][2], override[key][2]))
        ELSE override[key]]

-----------------------------------------------------------------------------
(* ConfigManager._load_yaml_file and get_config *)

Layers == {"global", "project", "local"}

\* A layer file: missing, or reading it raises, or it parses to a value.
Missing == <<"missing">>
Raises(e) == <<"raises", e>>
Content(v) == <<"content", v>>

\* except (yaml.YAMLError, OSError)
LoadCaught == {"YAMLError", "OSError"}

LoadYamlFile(file) ==
    IF file[1] = "missing" THEN Ok(None)
    ELSE IF file[1] = "raises"
         THEN IF file[2] \in LoadCaught THEN Ok(None) ELSE Raise(file[2])
    ELSE IF IsDict(file[2]) THEN Ok(file[2]) ELSE Ok(None)

\* Python truth of a value: a non-empty mapping or sequence, a non-zero scalar.
Truthy(v) ==
    \/ v[1] = "d" /\ DOMAIN v[2] # {}
    \/ v[1] = "l" /\ Len(v[2]) > 0
    \/ v[1] = "s" /\ v[2] # 0

\* _get_default_global_config, its keys that a modelled operation reads.
DefaultGlobalConfig ==
    [version |-> Scalar(1),
     output_format |-> Dict([colors |-> Scalar(1), multiline |-> Scalar(1)])]

\* One "load the layer, merge it if truthy" step of get_config on the result so far.
MergeLayer(sofar, file) ==
    IF IsRaise(sofar) THEN sofar
    ELSE LET loaded == LoadYamlFile(file)
         IN  IF IsRaise(loaded) THEN loaded
             ELSE IF Truthy(loaded[2]) THEN Ok(DeepMerge(sofar[2], loaded[2][2]))
             ELSE sofar

GetConfig(fs) ==
    MergeLayer(MergeLayer(MergeLayer(Ok(DefaultGlobalConfig), fs["global"]),
                          fs["project"]), fs["local"])

-----------------------------------------------------------------------------
(* Inputs of the configuration specifications *)

LeafScalars == {Scalar(n) : n \in Scalars}
LeafLists == {List(<<n>>) : n \in Scalars}

\* The mappings a layer may hold under output_format.
InnerDicts == DictsOver({"colors", "multiline"}, LeafScalars)

\* output_format as a scalar, a sequence or a mapping: layers may disagree on its shape.
OutputFormatVals == LeafScalars \cup LeafLists \cup {Dict(d) : d \in InnerDicts}

VersionPart == {EmptyDict, [version |-> Scalar(MaxScalar)]}
FormatPart == {EmptyDict} \cup {[output_format |-> v] : v \in OutputFormatVals}

MergeDicts == {a @@ b : a \in VersionPart, b \in FormatPart}

\* What reading a file can raise: open() an OSError, the text decoder a
\* UnicodeDecodeError (a ValueError), the YAML parser a YAMLError.
ReadErrors == {"OSError", "YAMLError", "UnicodeDecodeError"}

ConfigDicts ==
    {EmptyDict,
     [version |-> Scalar(0)],
     [output_format |-> Scalar(0)],
     [output_format |-> Dict([colors |-> Scalar(0)])]}

ConfigFileStates ==
    {Missing} \cup {Raises(e) : e \in ReadErrors}
      \cup {Content(None), Content(Scalar(MaxScalar)), Content(List(<<0>>))}
      \cup {Content(Dict(d)) : d \in ConfigDicts}

\* The mappings of the three layers, lowest precedence first.
LayerDict(l) == files[l][2][2]
A == LayerDict("global")
B == LayerDict("project")
C == LayerDict("local")

AllMappings == \A l \in Layers : files[l][1] = "content" /\ IsDict(files[l][2])

-----------------------------------------------------------------------------
(* The configuration resolver's operations *)

\* The parts of the state a specification does not use.
ConfigIdle ==
    /\ files = [l \in Layers |-> Missing]
    /\ merged_ab = Absent
    /\ merged_abc = Absent
    /\ cfg_result = Absent

DetectIdle ==
    /\ det_configs = <<>>
    /\ det_net = Absent
    /\ det_probe = Absent
    /\ detected = Absent

GitIdle ==
    /\ git_config = Absent
    /\ git_repo = Absent
    /\ git_result = Absent

CliIdle ==
    /\ pc = "idle"
    /\ stdin = Absent
    /\ env_no_color = Absent
    /\ engine = Absent
    /\ env_disk = Absent
    /\ env_net = Absent
    /\ found_repos = <<>>
    /\ found_servers = <<>>
    /\ status_lines = <<>>
    /\ printed = <<>>
    /\ failed_step = "none"
    /\ escaped = "none"

ProjIdle ==
    /\ origin = Absent
    /\ project_dir = Absent
    /\ identity = Absent

StoreIdle ==
    /\ project_files = Absent
    /\ clock = 0
    /\ last_call = Absent

InitMerge ==
    /\ files \in [Layers -> {Content(Dict(d)) : d \in MergeDicts}]
    /\ merged_ab = Absent
    /\ merged_abc = Absent
    /\ cfg_result = Absent
    /\ DetectIdle
    /\ GitIdle
    /\ CliIdle
    /\ ProjIdle
    /\ StoreIdle

InitConfig ==
    /\ files \in [Layers -> ConfigFileStates]
    /\ merged_ab = Absent
    /\ merged_abc = Absent
    /\ cfg_result = Absent
    /\ DetectIdle
    /\ GitIdle
    /\ CliIdle
    /\ ProjIdle
    /\ StoreIdle

\* _deep_merge(A, B)
MergeTwo ==
    /\ AllMappings
    /\ merged_ab = Absent
    /\ merged_ab' = Dict(DeepMerge(A, B))
    /\ UNCHANGED <<files, merged_abc, cfg_result, detectVars, gitVars, cliVars, projVars, storeVars>>

\* _deep_merge(_deep_merge(A, B), C)
MergeThree ==
    /\ merged_ab # Absent
    /\ merged_abc = Absent
    /\ merged_abc' = Dict(DeepMerge(merged_ab[2], C))
    /\ UNCHANGED <<files, merged_ab, cfg_result, detectVars, gitVars, cliVars, projVars, storeVars>>

\* get_config(project_path)
GetConfigCall ==
    /\ cfg_result = Absent
    /\ cfg_result' = GetConfig(files)
    /\ UNCHANGED <<files, merged_ab, merged_abc, detectVars, gitVars, cliVars, projVars, storeVars>>

NextMerge == MergeTwo \/ MergeThree \/ GetConfigCall

SpecMerge == InitMerge /\ [][NextMerge]_vars

NextConfig == GetConfigCall

SpecConfig == InitConfig /\ [][NextConfig]_vars

-----------------------------------------------------------------------------
(* Text: a string is the sequence of its characters *)

Digits == <<"0", "1", "2", "3", "4", "5", "6", "7", "8", "9">>

\* str(n) for n >= 0
RECURSIVE Str(_)
Str(n) == IF n < 10 THEN <<Digits[n + 1]>> ELSE Str(n \div 10) \o <<Digits[(n % 10) + 1]>>

Whitespace == {" ", "LF"}

\* "SUP2" is the character SUPERSCRIPT TWO: a digit to str.isdigit, and no
\* decimal digit to int().
AsciiDigits == {Digits[i] : i \in 1 .. 10}
OtherDigits == {"SUP2"}

RECURSIVE LStrip(_)
LStrip(t) == IF t # <<>> /\ Head(t) \in Whitespace THEN LStrip(Tail(t)) ELSE t

RECURSIVE RStrip(_)
RStrip(t) ==
    IF t # <<>> /\ t[Len(t)] \in Whitespace THEN RStrip(SubSeq(t, 1, Len(t) - 1)) ELSE t

\* str.strip()
Strip(t) == RStrip(LStrip(t))

\* str.isdigit(): not empty, and every character is a digit
IsDigitText(t) == t # <<>> /\ \A i \in 1 .. Len(t) : t[i] \in AsciiDigits \cup OtherDigits

DigitValue(c) == CHOOSE d \in 0 .. 9 : Digits[d + 1] = c

RECURSIVE DecimalValue(_)
DecimalValue(t) ==
    IF t = <<>> THEN 0
    ELSE 10 * DecimalValue(SubSeq(t, 1, Len(t) - 1)) + DigitValue(t[Len(t)])

\* int(t) for a text that passed isdigit(): a ValueError unless every character
\* is a decimal digit.
ParseInt(t) ==
    IF \A i \in 1 .. Len(t) : t[i] \in AsciiDigits THEN Ok(DecimalValue(t))
    ELSE Raise("ValueError")

-----------------------------------------------------------------------------
(* GitManager (src/src/git.py) *)

\* What subprocess.run does for one git command: it exits with a status and a
\* standard output, or the call raises TimeoutExpired or OSError.
Exit(success, stdout) == <<"exit", success, stdout>>
TimedOut == <<"timeout">>
OsError == <<"oserror">>

\* run_git_command: (stdout.strip(), returncode == 0), or ("", False) on
\* TimeoutExpired, OSError, FileNotFoundError.
RunGitCommand(outcome) ==
    IF outcome[1] = "exit" THEN <<Strip(outcome[3]), outcome[2]>> ELSE <<<<>>, FALSE>>

\* The child process of subprocess.run(cmd_args, capture_output=True, text=True,
\* cwd=cwd, timeout=5.0): stdout and stderr are pipes; stdin is not passed, so
\* the child is given the standard input of the parent.
SubprocessRun(cmd, cwd) ==
    [cmd |-> cmd, cwd |-> cwd, stdin |-> "inherited", stdout |-> "pipe", stderr |-> "pipe"]

\* A RepoStatus, as a value that may also be None.
RepoStatus(fields) == <<"status", fields>>
IsNone(v) == v[1] = "none"

Detached == <<"d", "e", "t", "a", "c", "h", "e", "d">>

\* behind = int(behind_output) if success and behind_output.isdigit() else 0
BehindOf(behind_run) ==
    IF behind_run[2] /\ IsDigitText(behind_run[1]) THEN ParseInt(behind_run[1]) ELSE Ok(0)

\* get_repo_status(repo_config, project_root), repo the state of the repository
\* path: whether it exists and holds .git, and what each git query does there.
\* ret is what the call returns or raises, cmds the git commands it ran, in order.
GetRepoStatus(repo_config, repo) ==
    IF "path" \notin DOMAIN repo_config THEN [ret |-> Raise("KeyError"), cmds |-> <<>>]
    ELSE IF ~repo.exists \/ ~repo.dotgit THEN [ret |-> Ok(None), cmds |-> <<>>]
    ELSE
      LET symref == RunGitCommand(repo.symref)
          revparse == RunGitCommand(repo.revparse)
          branch_output == IF symref[2] THEN symref[1] ELSE revparse[1]
          branch_cmds == IF symref[2] THEN <<"symbolic-ref">>
                         ELSE <<"symbolic-ref", "rev-parse">>
          branch_name == IF branch_output # <<>> THEN branch_output ELSE Detached
          behind == BehindOf(RunGitCommand(repo.revlist))
          changes == RunGitCommand(repo.status)
          has_changes == Strip(changes[1]) # <<>>
      IN  IF IsRaise(behind)
          THEN [ret |-> behind, cmds |-> branch_cmds \o <<"rev-list">>]
          ELSE IF "name" \notin DOMAIN repo_config
          THEN [ret |-> Raise("KeyError"), cmds |-> branch_cmds \o <<"rev-list", "status">>]
          ELSE [ret |-> Ok(RepoStatus([name |-> repo_config.name,
                                       branch |-> branch_name,
                                       behind |-> behind[2],
                                       has_changes |-> has_changes,
                                       path |-> repo_config.path])),
                cmds |-> branch_cmds \o <<"rev-list", "status">>]

\* The git child processes get_repo_status starts, in order: each is run by
\* run_git_command with str(repo_path) as cwd.
GitProcesses(repo_config, repo) ==
    LET cmds == GetRepoStatus(repo_config, repo).cmds
    IN  [n \in 1 .. Len(cmds) |-> SubprocessRun(cmds[n], repo_config.path)]

-----------------------------------------------------------------------------
(* ServerDetector (src/src/detection.py) *)

\* The machine a probe runs on: the platform, what running each tool does
\* ("ok", or the exception subprocess.run raises: FileNotFoundError when the
\* tool is missing, another OSError, TimeoutExpired), and the ports that
\* sockets are bound to.

IsPrefix(s, t) == Len(s) <= Len(t) /\ SubSeq(t, 1, Len(s)) = s

\* lsof -i:<port> lists the sockets on that port.
LsofListsPort(port, net) == port \in net.bound

\* f":{port_str}" in the netstat output, whose lines name each bound port as
\* <address>:<port> followed by a blank.
NetstatShowsPort(port, net) == \E q \in net.bound : IsPrefix(Str(port), Str(q))

\* except (OSError, FileNotFoundError) around the lsof call
LsofCaughtWide == {"OSError", "FileNotFoundError", "TimeoutExpired"}

LsofCaught == {"OSError", "FileNotFoundError"}

\* except (subprocess.TimeoutExpired, OSError, FileNotFoundError)
ProbeCaught == {"TimeoutExpired", "OSError", "FileNotFoundError"}

ProbeFailed(e) == IF e \in ProbeCaught THEN Ok(FALSE) ELSE Raise(e)

NetstatProbe(port, net) ==
    [ret |-> IF net.netstat = "ok" THEN Ok(NetstatShowsPort(port, net))
             ELSE ProbeFailed(net.netstat),
     tools |-> <<"netstat">>]

\* _is_port_active(port): ret is what it returns or raises, tools the tools it ran.
IsPortActive(port, net) ==
    IF net.platform = "win32" THEN NetstatProbe(port, net)
    ELSE IF net.lsof = "ok" THEN [ret |-> Ok(LsofListsPort(port, net)), tools |-> <<"lsof">>]
    ELSE IF net.lsof \in LsofCaught
         THEN [ret |-> NetstatProbe(port, net).ret, tools |-> <<"lsof", "netstat">>]
    ELSE [ret |-> ProbeFailed(net.lsof), tools |-> <<"lsof">>]

EnabledIgnored(config) == TRUE

\* config.get("enabled", True)
Enabled(config) == IF "enabled" \in DOMAIN config THEN config.enabled ELSE TRUE

\* The inner loop of detect_servers without its break, from port index j.
RECURSIVE ScanPortsNoBreak(_, _, _)
ScanPortsNoBreak(ports, j, net) ==
    IF j > Len(ports) THEN [hits |-> <<>>, probed |-> <<>>, exc |-> "none"]
    ELSE LET probe == IsPortActive(ports[j], net).ret
             rest == ScanPortsNoBreak(ports, j + 1, net)
         IN  IF IsRaise(probe) THEN [hits |-> <<>>, probed |-> <<j>>, exc |-> probe[2]]
             ELSE [hits |-> (IF probe[2] THEN <<j>> ELSE <<>>) \o rest.hits,
                   probed |-> <<j>> \o rest.probed,
                   exc |-> rest.exc]

\* The inner loop of detect_servers reporting its first hit but probing on
\* after it.
ScanPortsProbeAll(ports, j, net) ==
    LET all == ScanPortsNoBreak(ports, j, net)
    IN  [hits |-> IF all.hits = <<>> THEN <<>> ELSE <<all.hits[1]>>,
         probed |-> all.probed,
         exc |-> all.exc]

\* The inner loop of detect_servers probing a port a second time when the
\* first probe did not find it active.
RECURSIVE ScanPortsRetry(_, _, _)
ScanPortsRetry(ports, j, net) ==
    IF j > Len(ports) THEN [hits |-> <<>>, probed |-> <<>>, exc |-> "none"]
    ELSE LET probe == IsPortActive(ports[j], net).ret
             rest == ScanPortsRetry(ports, j + 1, net)
         IN  IF IsRaise(probe) THEN [hits |-> <<>>, probed |-> <<j>>, exc |-> probe[2]]
             ELSE IF probe[2] THEN [hits |-> <<j>>, probed |-> <<j>>, exc |-> "none"]
             ELSE [hits |-> rest.hits, probed |-> <<j, j>> \o rest.probed, exc |-> rest.exc]

\* The inner loop of detect_servers from port index j: hits holds the index of
\* the port that was found active, if any, probed the indices probed, in
\* order, exc the exception a probe raised, if any.
RECURSIVE ScanPorts(_, _, _)
ScanPorts(ports, j, net) ==
    IF j > Len(ports) THEN [hits |-> <<>>, probed |-> <<>>, exc |-> "none"]
    ELSE LET probe == IsPortActive(ports[j], net).ret
             rest == ScanPorts(ports, j + 1, net)
         IN  IF IsRaise(probe) THEN [hits |-> <<>>, probed |-> <<j>>, exc |-> probe[2]]
             ELSE IF probe[2] THEN [hits |-> <<j>>, probed |-> <<j>>, exc |-> "none"]
             ELSE [hits |-> rest.hits, probed |-> <<j>> \o rest.probed, exc |-> rest.exc]

\* detect_servers(server_configs) from config index i.  ret is the list it
\* returns (or what it raises), src the index of the config each entry came
\* from, probes the <<config index, port index>> pairs probed, in order.
RECURSIVE DetectFrom(_, _, _)
DetectFrom(server_configs, i, net) ==
    IF i > Len(server_configs) THEN [ret |-> Ok(<<>>), src |-> <<>>, probes |-> <<>>]
    ELSE
      LET config == server_configs[i]
          rest == DetectFrom(server_configs, i + 1, net)
      IN  IF ~Enabled(config) THEN rest
          ELSE IF "ports" \notin DOMAIN config
          THEN [ret |-> Raise("KeyError"), src |-> <<>>, probes |-> <<>>]
          ELSE
            LET scan == ScanPorts(config.ports, 1, net)
                probes == [n \in 1 .. Len(scan.probed) |-> <<i, scan.probed[n]>>]
            IN  IF scan.exc # "none"
                THEN [ret |-> Raise(scan.exc), src |-> <<>>, probes |-> probes]
                ELSE IF scan.hits # <<>> /\ ~({"name", "emoji"} \subseteq DOMAIN config)
                THEN [ret |-> Raise("KeyError"), src |-> <<>>, probes |-> probes]
                ELSE IF IsRaise(rest.ret)
                THEN [ret |-> rest.ret, src |-> <<>>, probes |-> probes \o rest.probes]
                ELSE [ret |-> Ok([n \in 1 .. Len(scan.hits) |->
                                    [name |-> config.name,
                                     port |-> config.ports[scan.hits[n]],
                                     emoji |-> config.emoji]] \o rest.ret[2]),
                      src |-> [n \in 1 .. Len(scan.hits) |-> i] \o rest.src,
                      probes |-> probes \o rest.probes]

DetectServers(server_configs, net) == DetectFrom(server_configs, 1, net)

-----------------------------------------------------------------------------
(* Project identity: ConfigManager.get_project_id and _get_git_remote_url *)

UpperCase == <<"A", "B", "C", "D", "E", "F", "G", "H", "I", "J", "K", "L", "M", "N", "O", "P", "Q", "R", "S", "T", "U", "V", "W", "X", "Y", "Z">>
LowerCase == <<"a", "b", "c", "d", "e", "f", "g", "h", "i", "j", "k", "l", "m", "n", "o", "p", "q", "r", "s", "t", "u", "v", "w", "x", "y", "z">>

\* str.lower()
LowerChar(c) ==
    IF \E n \in 1 .. Len(UpperCase) : UpperCase[n] = c
    THEN LowerCase[CHOOSE n \in 1 .. Len(UpperCase) : UpperCase[n] = c]
    ELSE c

Lower(t) == [n \in 1 .. Len(t) |-> LowerChar(t[n])]

EndsWith(t, suffix) ==
    Len(suffix) <= Len(t) /\ SubSeq(t, Len(t) - Len(suffix) + 1, Len(t)) = suffix

\* str.replace(old, new), old not empty
RECURSIVE ReplaceAll(_, _, _)
ReplaceAll(t, old, new) ==
    IF t = <<>> THEN <<>>
    ELSE IF IsPrefix(old, t)
         THEN new \o ReplaceAll(SubSeq(t, Len(old) + 1, Len(t)), old, new)
    ELSE <<Head(t)>> \o ReplaceAll(Tail(t), old, new)

GitAt == <<"g", "i", "t", "@">>
Https == <<"h", "t", "t", "p", "s", ":", "/", "/">>
DotGit == <<".", "g", "i", "t">>

\* The normalisation of _get_git_remote_url: git@host:org/repo and
\* https://host/org/repo to host/org/repo, a .git suffix removed.
Normalise(url) ==
    LET bare == IF IsPrefix(GitAt, url)
                THEN ReplaceAll(ReplaceAll(url, GitAt, <<>>), <<":">>, <<"/">>)
                ELSE IF IsPrefix(Https, url) THEN SubSeq(url, Len(Https) + 1, Len(url))
                ELSE url
    IN  IF EndsWith(bare, DotGit) THEN SubSeq(bare, 1, Len(bare) - Len(DotGit)) ELSE bare

\* _get_git_remote_url(project_path): the normalised URL when git remote
\* get-url origin exits with 0, else None.
GetGitRemoteUrl(run) ==
    IF run[1] = "exit" /\ run[2] THEN <<"text", Normalise(Strip(run[3]))>> ELSE None

\* [\w\-.] on lowered text
SafeChars ==
    {LowerCase[n] : n \in 1 .. Len(LowerCase)} \cup AsciiDigits \cup {"_", "-", "."}

\* re.sub(r"[^\w\-.]", "-", t)
Dashed(t) == [n \in 1 .. Len(t) |-> IF t[n] \in SafeChars THEN t[n] ELSE "-"]

\* re.sub(r"-+", "-", t)
RECURSIVE CollapseDashes(_)
CollapseDashes(t) ==
    IF Len(t) < 2 THEN t
    ELSE IF t[1] = "-" /\ t[2] = "-" THEN CollapseDashes(Tail(t))
    ELSE <<t[1]>> \o CollapseDashes(Tail(t))

\* str.strip("-")
RECURSIVE StripDashes(_)
StripDashes(t) ==
    IF t # <<>> /\ Head(t) = "-" THEN StripDashes(Tail(t))
    ELSE IF t # <<>> /\ t[Len(t)] = "-" THEN StripDashes(SubSeq(t, 1, Len(t) - 1))
    ELSE t

SafeName(git_remote) == StripDashes(CollapseDashes(Dashed(Lower(git_remote))))

HashLen == 16

\* The leading digits of hashlib.sha256(str(path).encode()).hexdigest() for
\* the modelled paths
Sha256Hex ==
    [p \in {"/p", "/q"} |->
        IF p = "/p" THEN <<"0", "0", "d", "7", "4", "b", "a", "f", "1", "4", "e", "a", "4", "1", "5", "c", "6", "1", "6", "4">>
        ELSE <<"0", "4", "d", "d", "a", "e", "9", "5", "5", "c", "5", "0", "5", "d", "0", "9", "9", "6", "4", "6">>]

LocalPrefix == <<"l", "o", "c", "a", "l", "-">>

\* get_project_id(project_path), run being what git remote get-url origin does
\* there: the identity, and whether it came from the remote or from the path.
GetProjectId(run, project_path) ==
    LET git_remote == GetGitRemoteUrl(run)
    IN  IF ~IsNone(git_remote) /\ git_remote[2] # <<>>
        THEN [id |-> SafeName(git_remote[2]), from |-> "remote"]
        ELSE [id |-> LocalPrefix \o SubSeq(Sha256Hex[project_path], 1, HashLen),
              from |-> "path"]

-----------------------------------------------------------------------------
(* StatusLineRenderer (src/src/render.py).  A line is the sequence of its    *)
(* pieces of text; a glyph or an escape code is one piece, named in words.   *)

COLORS ==
    [reset |-> "ESC[0m", green |-> "ESC[32m", yellow |-> "ESC[33m", red |-> "ESC[31m",
     blue |-> "ESC[34m", magenta |-> "ESC[35m", cyan |-> "ESC[36m", white |-> "ESC[37m",
     bright_green |-> "ESC[92m", bright_yellow |-> "ESC[93m", bright_red |-> "ESC[91m",
     bright_blue |-> "ESC[94m", bright_magenta |-> "ESC[95m", bright_cyan |-> "ESC[96m",
     dim |-> "ESC[2m"]

\* config.get(key, default) on a mapping
Get(d, key, default) == IF key \in DOMAIN d THEN d[key] ELSE default

\* StatusLineRenderer.__init__ reading the configuration only, not NO_COLOR
RendererInitConfigOnly(config, no_color) ==
    LET output_format == Get(config, "output_format", Dict(EmptyDict))
    IN  IF ~IsDict(output_format) THEN Raise("AttributeError")
        ELSE Ok([use_colors |-> Truthy(Get(output_format[2], "colors", Scalar(1))),
                 multiline |-> Truthy(Get(output_format[2], "multiline", Scalar(1)))])

\* StatusLineRenderer.__init__: the renderer's fields, or the AttributeError of
\* calling .get on an output_format that is no mapping.
RendererInit(config, no_color) ==
    LET output_format == Get(config, "output_format", Dict(EmptyDict))
    IN  IF ~IsDict(output_format) THEN Raise("AttributeError")
        ELSE Ok([use_colors |-> Truthy(Get(output_format[2], "colors", Scalar(1)))
                                  /\ ~no_color,
                 multiline |-> Truthy(Get(output_format[2], "multiline", Scalar(1)))])

\* _colorize leaving a blank after the reset code
ColorizePadded(text, color, use_colors) ==
    IF ~use_colors \/ color \notin DOMAIN COLORS THEN text
    ELSE <<COLORS[color]>> \o text \o <<COLORS["reset"], " ">>

\* _colorize(text, color)
Colorize(text, color, use_colors) ==
    IF ~use_colors \/ color \notin DOMAIN COLORS THEN text
    ELSE <<COLORS[color]>> \o text \o <<COLORS["reset"]>>

\* str.startswith with a tuple of prefixes
StartsWithAny(t, prefixes) == \E pre \in prefixes : IsPrefix(pre, t)

Master == <<"m", "a", "s", "t", "e", "r">>
Feat == <<"f", "e", "a", "t">>
Feature == <<"f", "e", "a", "t", "u", "r", "e">>
Fix == <<"f", "i", "x">>
Hotfix == <<"h", "o", "t", "f", "i", "x">>
Bugfix == <<"b", "u", "g", "f", "i", "x">>
Dev == <<"d", "e", "v">>
Develop == <<"d", "e", "v", "e", "l", "o", "p">>
Release == <<"r", "e", "l", "e", "a", "s", "e">>

\* _get_branch_color(branch_name)
GetBranchColor(branch_name) ==
    IF branch_name \in {<<"m", "a", "i", "n">>, Master} THEN "bright_green"
    ELSE IF StartsWithAny(branch_name, {Feat, Feature}) THEN "bright_blue"
    ELSE IF StartsWithAny(branch_name, {Fix, Hotfix, Bugfix}) THEN "bright_red"
    ELSE IF StartsWithAny(branch_name, {Dev, Develop}) THEN "bright_yellow"
    ELSE IF StartsWithAny(branch_name, {Release}) THEN "bright_magenta"
    ELSE "cyan"

\* _get_status_emoji with the behind test ahead of the changes test
GetStatusEmojiBehindFirst(behind, has_changes) ==
    IF behind > 0 THEN (IF behind > 5 THEN "LARGE RED CIRCLE" ELSE "WARNING SIGN")
    ELSE IF has_changes THEN "LARGE YELLOW CIRCLE"
    ELSE "WHITE HEAVY CHECK MARK"

\* _get_status_emoji(behind, has_changes)
GetStatusEmoji(behind, has_changes) ==
    IF has_changes THEN "LARGE YELLOW CIRCLE"
    ELSE IF behind > 0 THEN (IF behind > 5 THEN "LARGE RED CIRCLE" ELSE "WARNING SIGN")
    ELSE "WHITE HEAVY CHECK MARK"

\* " | ".join(parts), the bar being BOX DRAWINGS LIGHT VERTICAL
Delimiter == <<" ", "BOX DRAWINGS LIGHT VERTICAL", " ">>

\* "".join(parts): the parts with no delimiter between them
RECURSIVE JoinBare(_)
JoinBare(parts) ==
    IF Len(parts) = 0 THEN <<>> ELSE parts[1] \o JoinBare(Tail(parts))

RECURSIVE Join(_)
Join(parts) ==
    IF Len(parts) = 0 THEN <<>>
    ELSE IF Len(parts) = 1 THEN parts[1]
    ELSE parts[1] \o Delimiter \o Join(Tail(parts))

\* The repository segment with its behind suffix written for every count
RepoPartAlwaysBehind(r, use_colors) ==
    <<GetStatusEmoji(r.behind, r.has_changes)>>
      \o Colorize(<<r.name>>, "bright_cyan", use_colors)
      \o <<":">>
      \o Colorize(r.branch, GetBranchColor(r.branch), use_colors)
      \o Colorize(<<"-">> \o Str(r.behind), "red", use_colors)
      \o (IF r.has_changes THEN Colorize(<<"*">>, "yellow", use_colors) ELSE <<>>)

\* One pass of the loop of _render_repositories: the segment of repository r
RepoPart(r, use_colors) ==
    <<GetStatusEmoji(r.behind, r.has_changes)>>
      \o Colorize(<<r.name>>, "bright_cyan", use_colors)
      \o <<":">>
      \o Colorize(r.branch, GetBranchColor(r.branch), use_colors)
      \o (IF r.behind > 0 THEN Colorize(<<"-">> \o Str(r.behind), "red", use_colors) ELSE <<>>)
      \o (IF r.has_changes THEN Colorize(<<"*">>, "yellow", use_colors) ELSE <<>>)

\* _render_repositories(repos)
RenderRepositories(repos, use_colors) ==
    <<"OPEN FILE FOLDER", " Repos ", "BLACK RIGHT-POINTING TRIANGLE", " ">>
      \o Join([n \in 1 .. Len(repos) |-> RepoPart(repos[n], use_colors)])

ServerPart(server, use_colors) ==
    <<server.emoji>>
      \o Colorize(<<server.name>>, "bright_green", use_colors)
      \o <<":">>
      \o Colorize(Str(server.port), "bright_yellow", use_colors)

\* _render_servers(servers)
RenderServers(servers, use_colors) ==
    <<"DESKTOP COMPUTER", " Servers ", "BLACK RIGHT-POINTING TRIANGLE", " ">>
      \o Join([n \in 1 .. Len(servers) |-> ServerPart(servers[n], use_colors)])

\* render(repos, servers) without the "if repos:" and "if servers:" tests
RenderUnguarded(repos, servers, renderer) ==
    IF renderer.multiline
    THEN <<RenderRepositories(repos, renderer.use_colors),
           RenderServers(servers, renderer.use_colors)>>
    ELSE <<Join(<<<<"OPEN FILE FOLDER", " ">> \o Str(Len(repos)) \o <<" repos">>,
                  <<"DESKTOP COMPUTER", " ">> \o Str(Len(servers)) \o <<" servers">>>>)>>

\* render(repos, servers)
Render(repos, servers, renderer) ==
    IF renderer.multiline
    THEN (IF Len(repos) > 0 THEN <<RenderRepositories(repos, renderer.use_colors)>> ELSE <<>>)
           \o (IF Len(servers) > 0 THEN <<RenderServers(servers, renderer.use_colors)>>
               ELSE <<>>)
    ELSE LET parts ==
               (IF Len(repos) > 0
                THEN <<<<"OPEN FILE FOLDER", " ">> \o Str(Len(repos)) \o <<" repos">>>>
                ELSE <<>>)
                 \o (IF Len(servers) > 0
                     THEN <<<<"DESKTOP COMPUTER", " ">> \o Str(Len(servers)) \o <<" servers">>>>
                     ELSE <<>>)
         IN  IF Len(parts) > 0 THEN <<Join(parts)>> ELSE <<>>

-----------------------------------------------------------------------------
(* StatusLineEngine (src/src/core.py) *)

\* get_logger("core", config) with none of the CCSL_* variables set:
\* StatusLineLogger calls .get on config.get("logging", {}), an AttributeError
\* when logging is no mapping.
LoggerInit(config) ==
    IF IsDict(Get(config, "logging", Dict(EmptyDict))) THEN Ok(None)
    ELSE Raise("AttributeError")

\* StatusLineEngine.__init__: the logger first, the renderer last.
EngineInit(config, no_color) ==
    IF IsRaise(LoggerInit(config)) THEN LoggerInit(config)
    ELSE RendererInit(config, no_color)

\* Iterating what config.get(key, []) gave: a sequence gives its items, an
\* empty mapping nothing, anything else fails (a scalar is not iterable, the
\* keys of a mapping cannot be indexed as entries).
Items(config, key) ==
    LET v == Get(config, key, List(<<>>))
    IN  IF v[1] = "l" THEN Ok(v[2])
        ELSE IF v[1] = "d" /\ DOMAIN v[2] = {} THEN Ok(<<>>)
        ELSE Raise("TypeError")

\* The loop of _get_repository_statuses ending at the first entry without a status.
RECURSIVE RepoStatusesUntilAbsent(_, _, _)
RepoStatusesUntilAbsent(repositories, i, disk) ==
    IF i > Len(repositories) THEN Ok(<<>>)
    ELSE LET repo_config == repositories[i]
             repo_status == GetRepoStatus(repo_config,
                                IF "path" \in DOMAIN repo_config
                                THEN disk[repo_config.path] ELSE Absent).ret
             rest == RepoStatusesUntilAbsent(repositories, i + 1, disk)
         IN  IF IsRaise(repo_status) THEN repo_status
             ELSE IF IsNone(repo_status[2]) THEN Ok(<<>>)
             ELSE IF IsRaise(rest) THEN rest
             ELSE Ok(<<repo_status[2][2]>> \o rest[2])

\* The loop of _get_repository_statuses from entry i, disk giving the state of
\* each repository path.
RECURSIVE RepoStatusesFrom(_, _, _)
RepoStatusesFrom(repositories, i, disk) ==
    IF i > Len(repositories) THEN Ok(<<>>)
    ELSE LET repo_config == repositories[i]
             repo_status == GetRepoStatus(repo_config,
                                IF "path" \in DOMAIN repo_config
                                THEN disk[repo_config.path] ELSE Absent).ret
             rest == RepoStatusesFrom(repositories, i + 1, disk)
         IN  IF IsRaise(repo_status) THEN repo_status
             ELSE IF IsRaise(rest) THEN rest
             ELSE IF IsNone(repo_status[2]) THEN rest
             ELSE Ok(<<repo_status[2][2]>> \o rest[2])

\* _get_repository_statuses() failing when a configured repository is not found.
GetRepositoryStatusesStrict(config, disk) ==
    IF IsRaise(Items(config, "repositories")) THEN Items(config, "repositories")
    ELSE LET got == RepoStatusesFrom(Items(config, "repositories")[2], 1, disk)
         IN  IF IsOk(got) /\ Len(got[2]) < Len(Items(config, "repositories")[2])
             THEN Raise("FileNotFoundError")
             ELSE got

\* _get_repository_statuses()
GetRepositoryStatuses(config, disk) ==
    IF IsRaise(Items(config, "repositories")) THEN Items(config, "repositories")
    ELSE RepoStatusesFrom(Items(config, "repositories")[2], 1, disk)

\* _detect_active_servers()
DetectActiveServers(config, net) ==
    IF IsRaise(Items(config, "servers")) THEN Items(config, "servers")
    ELSE DetectServers(Items(config, "servers")[2], net).ret

\* The classes the handler of generate_status_line catches: except Exception.
ExceptionClasses ==
    {"KeyError", "TypeError", "ValueError", "AttributeError", "OSError",
     "FileNotFoundError", "TimeoutExpired", "UnicodeDecodeError", "YAMLError"}

EngineCatchesProbeErrors(e) == e \in ProbeCaught

EngineCatches(e) == e \in ExceptionClasses

SetupNeededLine == <<"CROSS MARK", " Setup needed: cc-status-line --init">>

-----------------------------------------------------------------------------
(* Server detection: inputs and operations *)

MaxConfigs == 2

Ports == {80, 8080}

\* The orders in which a config may list its candidate ports.
PortLists == {<<80>>, <<8080>>, <<80, 8080>>, <<8080, 80>>}

ServerNames == {"Web", "API"}

\* A ServerConfig, with or without an enabled key.
ServerConfigs ==
    {[name |-> n, ports |-> ps, emoji |-> "globe"] : n \in ServerNames, ps \in PortLists}
      \cup {[name |-> n, ports |-> ps, emoji |-> "globe", enabled |-> e]
            : n \in ServerNames, ps \in PortLists, e \in BOOLEAN}

ServerConfigLists == UNION {[1 .. n -> ServerConfigs] : n \in 0 .. MaxConfigs}

ToolStatuses == {"ok", "FileNotFoundError", "OSError", "TimeoutExpired"}

Nets ==
    [platform : {"linux", "win32"}, lsof : ToolStatuses, netstat : ToolStatuses,
     bound : SUBSET Ports]

\* Machines where the probes work, lsof installed or not.
WorkingNets ==
    [platform : {"linux"}, lsof : {"ok", "FileNotFoundError"}, netstat : {"ok"},
     bound : SUBSET Ports]

InitDetect ==
    /\ det_configs \in ServerConfigLists
    /\ det_net \in WorkingNets
    /\ det_probe = Absent
    /\ detected = Absent
    /\ ConfigIdle
    /\ GitIdle
    /\ CliIdle
    /\ ProjIdle
    /\ StoreIdle

InitProbe ==
    /\ det_configs \in {<<[name |-> "Web", ports |-> ps, emoji |-> "globe"]>>
                            : ps \in PortLists}
    /\ det_net \in Nets
    /\ det_probe = Absent
    /\ detected = Absent
    /\ ConfigIdle
    /\ GitIdle
    /\ CliIdle
    /\ ProjIdle
    /\ StoreIdle

\* _is_port_active(port)
ProbePort(port) ==
    /\ det_probe' = Done([port |-> port, res |-> IsPortActive(port, det_net)])
    /\ UNCHANGED <<det_configs, det_net, detected, configVars, gitVars, cliVars, projVars, storeVars>>

\* detect_servers(server_configs)
DetectCall ==
    /\ detected = Absent
    /\ detected' = Done(DetectServers(det_configs, det_net))
    /\ UNCHANGED <<det_configs, det_net, det_probe, configVars, gitVars, cliVars, projVars, storeVars>>

NextDetect == DetectCall

SpecDetect == InitDetect /\ [][NextDetect]_vars

NextProbe == (\E port \in Ports : ProbePort(port)) \/ DetectCall

SpecProbe == InitProbe /\ [][NextProbe]_vars

-----------------------------------------------------------------------------
(* Git status: inputs and operations *)

MaxOut == 2

RevListChars == {"0", "2", "SUP2", "x", "LF"}

\* The texts of at most n characters over chars.
TextsUpTo(chars, n) == UNION {[1 .. k -> chars] : k \in 0 .. n}

Main == <<"m", "a", "i", "n">>

SymRefOutcomes == {Exit(TRUE, Main \o <<"LF">>), Exit(FALSE, <<>>), TimedOut}

\* A query that fails may have written to its standard output before it
\* failed, as git rev-parse does with the name it could not resolve.
RevParseOutcomes ==
    {Exit(TRUE, <<"a", "1", "LF">>), Exit(FALSE, <<>>),
     Exit(FALSE, <<"H", "E", "A", "D", "LF">>), OsError}

RevListOutcomes ==
    {Exit(ok, t) : ok \in BOOLEAN, t \in TextsUpTo(RevListChars, MaxOut)}
      \cup {TimedOut, OsError}

StatusOutcomes ==
    {Exit(TRUE, <<>>), Exit(TRUE, <<" ", "M", " ", "f", "LF">>), Exit(FALSE, <<>>), TimedOut}

RepoStates ==
    [exists : {TRUE}, dotgit : BOOLEAN, symref : SymRefOutcomes,
     revparse : RevParseOutcomes, revlist : RevListOutcomes, status : StatusOutcomes]
      \cup [exists : {FALSE}, dotgit : {FALSE}, symref : {TimedOut},
            revparse : {OsError}, revlist : {OsError}, status : {TimedOut}]

InitGit ==
    /\ git_config = [name |-> "TEST", path |-> "."]
    /\ git_repo \in RepoStates
    /\ git_result = Absent
    /\ ConfigIdle
    /\ DetectIdle
    /\ CliIdle
    /\ ProjIdle
    /\ StoreIdle

\* get_repo_status(repo_config, project_root)
GetRepoStatusCall ==
    /\ git_result = Absent
    /\ git_result' = Done(GetRepoStatus(git_config, git_repo))
    /\ UNCHANGED <<git_config, git_repo, configVars, detectVars, cliVars, projVars, storeVars>>

NextGit == GetRepoStatusCall

SpecGit == InitGit /\ [][NextGit]_vars

-----------------------------------------------------------------------------
(* One pass of the two collectors: a repository and the server configs *)

\* Repositories with .git whose queries succeed, fail or time out.
RunRepoStates ==
    [exists : {TRUE}, dotgit : {TRUE}, symref : SymRefOutcomes,
     revparse : {Exit(TRUE, <<"a", "1", "LF">>), OsError},
     revlist : {Exit(TRUE, <<"2", "LF">>), Exit(FALSE, <<>>), TimedOut},
     status : StatusOutcomes]

RunConfigLists ==
    UNION {[1 .. n -> {[name |-> "Web", ports |-> ps, emoji |-> "globe"]
                         : ps \in {<<80>>, <<80, 8080>>}}] : n \in 0 .. MaxConfigs}

\* Machines whose tools work, are missing or time out.
RunNets ==
    [platform : {"linux"}, lsof : {"ok", "FileNotFoundError", "TimeoutExpired"},
     netstat : {"ok", "TimeoutExpired"}, bound : SUBSET Ports]

InitRun ==
    /\ git_config = [name |-> "TEST", path |-> "."]
    /\ git_repo \in RunRepoStates
    /\ git_result = Absent
    /\ det_configs \in RunConfigLists
    /\ det_net \in RunNets
    /\ det_probe = Absent
    /\ detected = Absent
    /\ ConfigIdle
    /\ CliIdle
    /\ ProjIdle
    /\ StoreIdle

NextRun == GetRepoStatusCall \/ DetectCall

SpecRun == InitRun /\ [][NextRun]_vars

-----------------------------------------------------------------------------
(* display_status_line (src/src/cli.py): inputs and steps *)

\* What the standard input is: a terminal, or a stream holding nothing, text
\* that is no JSON, or a JSON value.
Tty == <<"tty">>
NoInput == <<"empty">>
InvalidJson == <<"invalid">>
Json(v) == <<"json", v>>

\* _get_claude_context()
GetClaudeContext(input) == IF input[1] = "json" THEN input[2] ELSE None

\* project_path of display_status_line: None, or what
\* claude_context["workspace"].get("current_working_directory") gives.
ProjectPath(claude_context) ==
    IF Truthy(claude_context) /\ IsDict(claude_context)
       /\ "workspace" \in DOMAIN claude_context[2]
    THEN IF IsDict(claude_context[2].workspace)
         THEN Ok(Get(claude_context[2].workspace[2], "current_working_directory", None))
         ELSE Raise("AttributeError")
    ELSE Ok(None)

\* not config.get("repositories") and not config.get("servers"), by key presence only
UnconfiguredKeysAbsent(config) ==
    "repositories" \notin DOMAIN config /\ "servers" \notin DOMAIN config

\* not config.get("repositories") and not config.get("servers")
Unconfigured(config) ==
    /\ ~Truthy(Get(config, "repositories", None))
    /\ ~Truthy(Get(config, "servers", None))

NoConfigurationLine == <<"CROSS MARK", " No configuration - Run 'cc-status-line --init'">>

StdinStates ==
    {Tty, NoInput, InvalidJson, Json(Dict(EmptyDict)),
     Json(Dict([workspace |-> Dict([current_working_directory |-> Scalar(1)])])),
     Json(Dict([workspace |-> Scalar(1)]))}

RepoConfigs == <<[name |-> "API", path |-> "."], [name |-> "WEB", path |-> "web"]>>

RepoPaths == {".", "web"}

\* What the project file may hold under repositories: lists of entries, an
\* entry without its path, a scalar.
RepositoriesVals ==
    {List(SubSeq(RepoConfigs, 1, n)) : n \in 0 .. Len(RepoConfigs)}
      \cup {List(<<[name |-> "API"]>>), Scalar(MaxScalar)}

ServersVals ==
    {List(<<>>), List(<<[name |-> "Web", ports |-> <<80, 8080>>, emoji |-> "globe"]>>),
     List(<<[name |-> "Web", emoji |-> "globe"]>>), Scalar(MaxScalar)}

ProjectDicts ==
    {a @@ b : a \in {EmptyDict} \cup {[repositories |-> v] : v \in RepositoriesVals},
              b \in {EmptyDict} \cup {[servers |-> v] : v \in ServersVals}}

\* Local overrides of the keys the engine's constructor reads.
LocalDicts ==
    {[output_format |-> Scalar(0)],
     [output_format |-> Dict([colors |-> Scalar(0), multiline |-> Scalar(0)])],
     [logging |-> Scalar(MaxScalar)],
     [logging |-> Dict(EmptyDict)]}

\* The repositories a run may find on disk: no directory, a directory without
\* .git, a clean repository on main, one with changes behind its upstream, one
\* whose rev-list prints a superscript.
DiskStates ==
    {r \in RepoStates :
        /\ r.exists
        /\ r.symref = Exit(TRUE, Main \o <<"LF">>)
        /\ r.revparse = Exit(FALSE, <<>>)
        /\ \/ r.revlist = Exit(TRUE, <<"0">>) /\ r.status = Exit(TRUE, <<>>)
           \/ r.dotgit /\ r.revlist = Exit(TRUE, <<"2">>) /\ r.status # Exit(TRUE, <<>>)
                /\ r.status[1] = "exit" /\ r.status[2]
           \/ r.dotgit /\ r.revlist = Exit(TRUE, <<"SUP2">>) /\ r.status = Exit(TRUE, <<>>)}
      \cup {r \in RepoStates : ~r.exists}

CliNets ==
    [platform : {"linux"}, lsof : {"ok"}, netstat : {"ok"}, bound : SUBSET Ports]

Init ==
    /\ pc = "start"
    /\ stdin \in StdinStates
    /\ files \in {f \in [Layers -> {Missing, Raises("UnicodeDecodeError")}
                                     \cup {Content(Dict(d)) : d \in ProjectDicts \cup LocalDicts}] :
                    /\ f["global"] = Missing
                    /\ f["project"][1] = "content" => f["project"][2][2] \in ProjectDicts
                    /\ f["project"][1] # "raises"
                    /\ f["local"][1] = "content" => f["local"][2][2] \in LocalDicts}
    /\ merged_ab = Absent
    /\ merged_abc = Absent
    /\ cfg_result = Absent
    /\ env_no_color = Absent
    /\ engine = Absent
    /\ env_disk = Absent
    /\ env_net = Absent
    /\ found_repos = <<>>
    /\ found_servers = <<>>
    /\ status_lines = <<>>
    /\ printed = <<>>
    /\ failed_step = "none"
    /\ escaped = "none"
    /\ DetectIdle
    /\ GitIdle
    /\ ProjIdle
    /\ StoreIdle

\* An exception leaves display_status_line.
Escapes(step, e) ==
    /\ pc' = "crashed"
    /\ failed_step' = step
    /\ escaped' = e

\* A step inside the try block of generate_status_line raised e: the handler
\* returns the setup line for the classes it catches.
FailsInTry(step, e) ==
    /\ failed_step' = step
    /\ IF EngineCatches(e)
       THEN status_lines' = <<SetupNeededLine>> /\ pc' = "echo" /\ escaped' = escaped
       ELSE status_lines' = status_lines /\ pc' = "crashed" /\ escaped' = e

\* claude_context = _get_claude_context() and the project path taken from it
ReadContext ==
    /\ pc = "start"
    /\ LET project_path == ProjectPath(GetClaudeContext(stdin))
       IN  IF IsRaise(project_path) THEN Escapes("context", project_path[2])
           ELSE pc' = "config" /\ UNCHANGED <<failed_step, escaped, projVars, storeVars>>
    /\ UNCHANGED <<stdin, env_no_color, engine, env_disk, env_net, found_repos,
                   found_servers, status_lines, printed, configVars, detectVars, gitVars, projVars, storeVars>>

\* config = config_manager.get_config(project_path)
LoadConfig ==
    /\ pc = "config"
    /\ cfg_result' = GetConfig(files)
    /\ IF IsRaise(cfg_result') THEN Escapes("config", cfg_result'[2])
       ELSE pc' = "guard" /\ UNCHANGED <<failed_step, escaped, projVars, storeVars>>
    /\ UNCHANGED <<stdin, env_no_color, engine, env_disk, env_net, found_repos,
                   found_servers, status_lines, printed, files, merged_ab, merged_abc,
                   detectVars, gitVars, projVars, storeVars>>

\* if not config.get("repositories") and not config.get("servers"): echo, return
CheckConfigured ==
    /\ pc = "guard"
    /\ IF Unconfigured(cfg_result[2])
       THEN printed' = <<NoConfigurationLine>> /\ pc' = "done"
       ELSE printed' = printed /\ pc' = "engine"
    /\ UNCHANGED <<stdin, env_no_color, engine, env_disk, env_net, found_repos,
                   found_servers, status_lines, failed_step, escaped, configVars,
                   detectVars, gitVars, projVars, storeVars>>

\* engine = StatusLineEngine(config), NO_COLOR being set or not
BuildEngine ==
    /\ pc = "engine"
    /\ \E set \in BOOLEAN :
         /\ env_no_color' = Done(set)
         /\ LET built == EngineInit(cfg_result[2], set)
            IN  IF IsRaise(built)
                THEN Escapes("engine", built[2]) /\ engine' = engine
                ELSE /\ engine' = Done(built[2])
                     /\ pc' = "repos"
                     /\ UNCHANGED <<failed_step, escaped, projVars, storeVars>>
    /\ UNCHANGED <<stdin, env_disk, env_net, found_repos, found_servers, status_lines,
                   printed, configVars, detectVars, gitVars, projVars, storeVars>>

\* repos = self._get_repository_statuses()
CollectRepositories ==
    /\ pc = "repos"
    /\ \E d \in [RepoPaths -> DiskStates] :
         /\ env_disk' = Done(d)
         /\ LET got == GetRepositoryStatuses(cfg_result[2], d)
            IN  IF IsRaise(got)
                THEN FailsInTry("repos", got[2]) /\ found_repos' = found_repos
                ELSE /\ found_repos' = got[2]
                     /\ pc' = "servers"
                     /\ UNCHANGED <<failed_step, escaped, status_lines, projVars, storeVars>>
    /\ UNCHANGED <<stdin, env_no_color, engine, env_net, found_servers, printed,
                   configVars, detectVars, gitVars, projVars, storeVars>>

\* servers = self._detect_active_servers()
DetectActive ==
    /\ pc = "servers"
    /\ \E n \in CliNets :
         /\ env_net' = Done(n)
         /\ LET got == DetectActiveServers(cfg_result[2], n)
            IN  IF IsRaise(got)
                THEN FailsInTry("servers", got[2]) /\ found_servers' = found_servers
                ELSE /\ found_servers' = got[2]
                     /\ pc' = "render"
                     /\ UNCHANGED <<failed_step, escaped, status_lines, projVars, storeVars>>
    /\ UNCHANGED <<stdin, env_no_color, engine, env_disk, found_repos, printed,
                   configVars, detectVars, gitVars, projVars, storeVars>>

\* return self.renderer.render(repos, servers)
RenderStatus ==
    /\ pc = "render"
    /\ status_lines' = Render(found_repos, found_servers, engine[2])
    /\ pc' = "echo"
    /\ UNCHANGED <<stdin, env_no_color, engine, env_disk, env_net, found_repos,
                   found_servers, printed, failed_step, escaped, configVars,
                   detectVars, gitVars, projVars, storeVars>>

\* for line in status_lines: click.echo(line)
EchoLines ==
    /\ pc = "echo"
    /\ printed' = status_lines
    /\ pc' = "done"
    /\ UNCHANGED <<stdin, env_no_color, engine, env_disk, env_net, found_repos,
                   found_servers, status_lines, failed_step, escaped, configVars,
                   detectVars, gitVars, projVars, storeVars>>

Next ==
    \/ ReadContext
    \/ LoadConfig
    \/ CheckConfigured
    \/ BuildEngine
    \/ CollectRepositories
    \/ DetectActive
    \/ RenderStatus
    \/ EchoLines

Spec == Init /\ [][Next]_vars

-----------------------------------------------------------------------------
(* StatusLineRenderer: inputs and operations *)

MaxBehind == 6

\* os.getenv("NO_COLOR"): unset, set to the empty string, set to a value.
Unset == <<"unset">>
NoColorValues == {Unset, <<"set", "">>, <<"set", "1">>}

\* The truth of os.getenv("NO_COLOR")
NoColorSet(value) == value[1] = "set" /\ value[2] # ""

FixBranch == Fix \o <<"-", "2">>

\* The RepoStatus values handed to render: the first over every behind count,
\* the second at the ends of the range.
FirstStatuses ==
    [name : {"API"}, branch : {Main, FixBranch}, behind : 0 .. MaxBehind,
     has_changes : BOOLEAN, path : {"."}]

SecondStatuses ==
    [name : {"WEB"}, branch : {Main}, behind : {0, MaxBehind},
     has_changes : BOOLEAN, path : {"web"}]

RepoStatusLists ==
    {<<>>} \cup {<<a>> : a \in FirstStatuses}
           \cup {<<a, b>> : a \in FirstStatuses, b \in SecondStatuses}

\* The detected servers handed to render; a configured name may itself be a
\* colour escape code.
WebServer == [name |-> "Web", port |-> 80, emoji |-> "globe"]
ApiServer == [name |-> "API", port |-> 8080, emoji |-> "plug"]
TintedServer == [name |-> COLORS["red"], port |-> 80, emoji |-> "globe"]

DetectedLists == {<<>>, <<WebServer>>, <<WebServer, ApiServer>>, <<TintedServer>>}

\* output_format of the configuration the renderer is built from.
RenderFormats ==
    {a @@ b : a \in {EmptyDict} \cup {[colors |-> v] : v \in LeafScalars},
              b \in {EmptyDict, [multiline |-> Scalar(0)]}}

InitRender ==
    /\ pc = "new"
    /\ cfg_result \in {Ok([output_format |-> Dict(f)]) : f \in RenderFormats}
    /\ env_no_color \in {Done(v) : v \in NoColorValues}
    /\ found_repos \in RepoStatusLists
    /\ found_servers \in DetectedLists
    /\ files = [l \in Layers |-> Missing]
    /\ merged_ab = Absent
    /\ merged_abc = Absent
    /\ stdin = Absent
    /\ engine = Absent
    /\ env_disk = Absent
    /\ env_net = Absent
    /\ status_lines = <<>>
    /\ printed = <<>>
    /\ failed_step = "none"
    /\ escaped = "none"
    /\ DetectIdle
    /\ GitIdle
    /\ ProjIdle
    /\ StoreIdle

\* StatusLineRenderer(config)
NewRenderer ==
    /\ pc = "new"
    /\ engine' = Done(RendererInit(cfg_result[2], NoColorSet(env_no_color[2]))[2])
    /\ pc' = "render"
    /\ UNCHANGED <<stdin, env_no_color, env_disk, env_net, found_repos, found_servers,
                   status_lines, printed, failed_step, escaped, configVars, detectVars,
                   gitVars, projVars, storeVars>>

NextRender == NewRenderer \/ RenderStatus \/ EchoLines

SpecRender == InitRender /\ [][NextRender]_vars

-----------------------------------------------------------------------------
(* Project identity: inputs and operations *)

Projects == {1, 2}

ProjectDirs == {"/p", "/q"}

\* A remote as git prints it: the ssh form user@host:org/repo, the https form
\* https://host/org/repo, either with or without .git, or a text given whole.
UrlText(remote) ==
    (IF remote.form = "ssh"
     THEN remote.user \o <<"@">> \o remote.host \o <<":">> \o remote.org \o <<"/">> \o remote.repo
     ELSE IF remote.form = "https"
     THEN Https \o remote.host \o <<"/">> \o remote.org \o <<"/">> \o remote.repo
     ELSE remote.repo)
      \o (IF remote.dotgit THEN DotGit ELSE <<>>)

GitUser == <<"g", "i", "t">>

Remotes ==
    [form : {"ssh"}, user : {GitUser, <<"a", "l">>}, host : {<<"h">>},
     org : {<<"a">>, <<"a", "-", "b">>}, repo : {<<"c">>, <<"b", "-", "c">>},
     dotgit : BOOLEAN]
      \cup [form : {"https"}, user : {<<>>}, host : {<<"h">>},
            org : {<<"a">>, <<"a", "-", "b">>}, repo : {<<"c">>, <<"b", "-", "c">>},
            dotgit : BOOLEAN]
      \cup [form : {"https"}, user : {<<>>}, host : {<<"H">>, <<"h", "/">>},
            org : {<<"a">>}, repo : {<<"c">>}, dotgit : {FALSE}]
      \cup [form : {"raw"}, user : {<<>>}, host : {<<>>}, org : {<<>>},
            repo : {<<>>, <<"/">>, LocalPrefix \o SubSeq(Sha256Hex["/p"], 1, HashLen)},
            dotgit : {FALSE}]

\* What git remote get-url origin does in a project: it prints a remote, it
\* exits with an error (no origin, no repository), or it times out.
Origins == {<<"remote", r>> : r \in Remotes} \cup {<<"fails">>, <<"timeout">>}

OriginRun(o) ==
    IF o[1] = "remote" THEN Exit(TRUE, UrlText(o[2]) \o <<"LF">>)
    ELSE IF o[1] = "fails" THEN Exit(FALSE, <<>>)
    ELSE TimedOut

InitProject ==
    /\ origin \in [Projects -> Origins]
    /\ project_dir \in [Projects -> ProjectDirs]
    /\ identity = [i \in Projects |-> Absent]
    /\ ConfigIdle
    /\ DetectIdle
    /\ GitIdle
    /\ CliIdle
    /\ StoreIdle

\* get_project_id(project_path) for project i
GetProjectIdCall(i) ==
    /\ identity[i] = Absent
    /\ identity' = [identity EXCEPT
                      ![i] = Done(GetProjectId(OriginRun(origin[i]), project_dir[i]))]
    /\ UNCHANGED <<origin, project_dir, configVars, detectVars, gitVars, cliVars, storeVars>>

NextProject == \E i \in Projects : GetProjectIdCall(i)

SpecProject == InitProject /\ [][NextProject]_vars

-----------------------------------------------------------------------------
(* ConfigManager: saving, reading, deleting and listing configuration files *)

\* time.strftime("%Y-%m-%d %H:%M:%S") at second t.
Strftime(t) == <<"time", t>>

\* A mapping with one more key set: config[key] = value.
SetItem(config, key, value) ==
    [k \in DOMAIN config \cup {key} |-> IF k = key THEN value ELSE config[k]]

\* save_global_config and save_local_config: yaml.safe_dump(config) into the file.
SaveGlobalConfig(config) == Content(Dict(config))

SaveLocalConfig(config) == Content(Dict(config))

\* save_project_config: config["updated_at"] = time.strftime(...), then the dump.
SaveProjectConfig(config, now) ==
    Content(Dict(SetItem(config, "updated_at", Strftime(now))))

\* get_project_config: _load_yaml_file(projects_dir / f"{project_id}.yaml").
GetProjectConfig(store, project_id) == LoadYamlFile(store[project_id])

\* A delete that reports success whether or not there was a file.
DeleteProjectConfigAlwaysTrue(store, project_id) ==
    [store |-> [store EXCEPT ![project_id] = Missing], ret |-> TRUE]

\* delete_project_config: unlink and True when the file exists, else False.
DeleteProjectConfig(store, project_id) ==
    IF store[project_id] # Missing
    THEN [store |-> [store EXCEPT ![project_id] = Missing], ret |-> TRUE]
    ELSE [store |-> store, ret |-> FALSE]

\* list_projects: every *.yaml file of the directory that loads to a truthy
\* mapping, with "id" set to the file's stem.
ListProjects(store) ==
    {SetItem(GetProjectConfig(store, project_id)[2][2], "id", <<"stem", project_id>>) :
        project_id \in {p \in DOMAIN store :
                           /\ store[p] # Missing
                           /\ IsOk(GetProjectConfig(store, p))
                           /\ GetProjectConfig(store, p)[2] # None
                           /\ Truthy(GetProjectConfig(store, p)[2])}}

MaxClock == 2
ProjectIds == {"p1", "p2"}
SavedDicts == {EmptyDict, [version |-> Scalar(1)]}

InitStore ==
    /\ files = [l \in Layers |-> Missing]
    /\ project_files \in [ProjectIds -> {Missing, Content(Dict([version |-> Scalar(1)]))}]
    /\ clock = 0
    /\ last_call = Done([op |-> "none", id |-> "none", ret |-> FALSE,
                         before |-> Absent, at |-> 0, prev |-> <<"none", "none">>])
    /\ merged_ab = Absent
    /\ merged_abc = Absent
    /\ cfg_result = Absent
    /\ DetectIdle
    /\ GitIdle
    /\ CliIdle
    /\ ProjIdle

Call(op, id, ret, before) ==
    Done([op |-> op, id |-> id, ret |-> ret, before |-> before, at |-> clock,
          prev |-> <<last_call[2].op, last_call[2].id>>])

Tick ==
    /\ clock < MaxClock
    /\ clock' = clock + 1
    /\ UNCHANGED <<files, project_files, last_call, merged_ab, merged_abc, cfg_result,
                   detectVars, gitVars, cliVars, projVars>>

SaveGlobalConfigCall ==
    \E config \in SavedDicts :
        /\ files' = [files EXCEPT !["global"] = SaveGlobalConfig(config)]
        /\ last_call' = Call("save_global_config", "none", FALSE, Absent)
        /\ UNCHANGED <<project_files, clock, merged_ab, merged_abc, cfg_result,
                       detectVars, gitVars, cliVars, projVars>>

SaveLocalConfigCall ==
    \E config \in SavedDicts :
        /\ files' = [files EXCEPT !["local"] = SaveLocalConfig(config)]
        /\ last_call' = Call("save_local_config", "none", FALSE, Absent)
        /\ UNCHANGED <<project_files, clock, merged_ab, merged_abc, cfg_result,
                       detectVars, gitVars, cliVars, projVars>>

SaveProjectConfigCall ==
    \E config \in SavedDicts, project_id \in ProjectIds :
        /\ project_files' =
               [project_files EXCEPT ![project_id] = SaveProjectConfig(config, clock)]
        /\ last_call' = Call("save_project_config", project_id, FALSE, Absent)
        /\ UNCHANGED <<files, clock, merged_ab, merged_abc, cfg_result,
                       detectVars, gitVars, cliVars, projVars>>

DeleteProjectConfigCall ==
    \E project_id \in ProjectIds :
        /\ project_files' = DeleteProjectConfig(project_files, project_id).store
        /\ last_call' = Call("delete_project_config", project_id,
                               DeleteProjectConfig(project_files, project_id).ret,
                               Done(project_files))
        /\ UNCHANGED <<files, clock, merged_ab, merged_abc, cfg_result,
                       detectVars, gitVars, cliVars, projVars>>

NextStore ==
    \/ Tick
    \/ SaveGlobalConfigCall
    \/ SaveLocalConfigCall
    \/ SaveProjectConfigCall
    \/ DeleteProjectConfigCall

SpecStore == InitStore /\ [][NextStore]_vars

-----------------------------------------------------------------------------
(* Helpers of the statements *)

\* The call has been made and its result recorded.
Called(v) == v[1] = "done"

Range(seq) == {seq[n] : n \in 1 .. Len(seq)}

-----------------------------------------------------------------------------
(* Key paths of nested mappings, for the statements about merging *)

RECURSIVE PathsOf(_)
PathsOf(d) ==
    UNION {{<<k>>} \cup (IF IsDict(d[k]) THEN {<<k>> \o p : p \in PathsOf(d[k][2])} ELSE {})
           : k \in DOMAIN d}

RECURSIVE Lookup(_, _)
Lookup(d, p) ==
    IF p[1] \notin DOMAIN d THEN Absent
    ELSE IF Len(p) = 1 THEN d[p[1]]
    ELSE IF IsDict(d[p[1]]) THEN Lookup(d[p[1]][2], Tail(p))
    ELSE Absent

Max(S) == CHOOSE x \in S : \A y \in S : y <= x

AllPaths(Ls) == UNION {PathsOf(Ls[i]) : i \in 1 .. Len(Ls)}

ProperPrefixes(p) == {SubSeq(p, 1, n) : n \in 1 .. Len(p) - 1}

\* Layers that hold a leaf at path p.
Defining(Ls, p) == {i \in 1 .. Len(Ls) : IsLeaf(Lookup(Ls[i], p))}

\* The result r holds at every leaf path the value of the highest layer defining it.
LeafPrecedence(Ls, r) ==
    \A p \in AllPaths(Ls) :
        Defining(Ls, p) # {} => Lookup(r, p) = Lookup(Ls[Max(Defining(Ls, p))], p)

\* Layer d replaces what lower layers hold at p: it holds a value at p, or a
\* non-mapping at a key enclosing p.
Replaces(d, p) ==
    \/ Lookup(d, p) # Absent
    \/ \E q \in ProperPrefixes(p) : IsLeaf(Lookup(d, q))

Survives(Ls, i, p) ==
    /\ IsLeaf(Lookup(Ls[i], p))
    /\ \A j \in (i + 1) .. Len(Ls) : ~Replaces(Ls[j], p)

\* The leaves of r are exactly the layers' leaves that no higher layer replaces.
WholesalePrecedence(Ls, r) ==
    \A p \in AllPaths(Ls) \cup PathsOf(r) :
        /\ \A i \in 1 .. Len(Ls) : Survives(Ls, i, p) => Lookup(r, p) = Lookup(Ls[i], p)
        /\ IsLeaf(Lookup(r, p)) => \E i \in 1 .. Len(Ls) : Survives(Ls, i, p)

\* No key path holds a mapping in one layer and a non-mapping in another.
ShapeConsistent(Ls) ==
    \A p \in AllPaths(Ls) : \A i, j \in 1 .. Len(Ls) :
        ~(IsDict(Lookup(Ls[i], p)) /\ IsLeaf(Lookup(Ls[j], p)))

-----------------------------------------------------------------------------
(* Claims about the configuration resolver *)

\* C1 as stated: for all mappings A, B, C, whatever mix of mapping and
\* non-mapping values they hold at one key, _deep_merge(_deep_merge(A, B), C)
\* holds at every leaf key path the value of the highest-precedence layer that
\* defines that leaf.
C1_AsClaimed ==
    merged_abc # Absent => LeafPrecedence(<<A, B, C>>, merged_abc[2])

\* C1 (amended): _deep_merge(_deep_merge(A, B), C), and get_config over
\* defaults < global < project < local, hold at a leaf key path the value of
\* the highest-precedence layer defining that leaf unless a higher layer holds
\* a value at that path or a non-mapping at an enclosing key, which replaces
\* the lower layers' value there wholesale; when no key path is a mapping in
\* one layer and a non-mapping in another, every leaf path holds the value of
\* the highest layer defining it.
C1_MergePrecedence ==
    /\ merged_abc # Absent =>
          /\ WholesalePrecedence(<<A, B, C>>, merged_abc[2])
          /\ ShapeConsistent(<<A, B, C>>) => LeafPrecedence(<<A, B, C>>, merged_abc[2])
    /\ (cfg_result # Absent /\ AllMappings) =>
          /\ IsOk(cfg_result)
          /\ WholesalePrecedence(<<DefaultGlobalConfig, A, B, C>>, cfg_result[2])
          /\ ShapeConsistent(<<DefaultGlobalConfig, A, B, C>>) =>
                LeafPrecedence(<<DefaultGlobalConfig, A, B, C>>, cfg_result[2])

\* Three layers of one shape: A and B set output_format.colors differently, C
\* sets only output_format.multiline, and version comes from A alone.
C1_Witness ==
    /\ AllMappings
    /\ merged_abc # Absent
    /\ cfg_result # Absent
    /\ ShapeConsistent(<<DefaultGlobalConfig, A, B, C>>)
    /\ IsLeaf(Lookup(A, <<"output_format", "colors">>))
    /\ IsLeaf(Lookup(B, <<"output_format", "colors">>))
    /\ Lookup(A, <<"output_format", "colors">>) # Lookup(B, <<"output_format", "colors">>)
    /\ Lookup(C, <<"output_format", "colors">>) = Absent
    /\ IsLeaf(Lookup(C, <<"output_format", "multiline">>))
    /\ "version" \in DOMAIN A
    /\ "version" \notin DOMAIN B \cup DOMAIN C

\* C2: _deep_merge(base, override) recurses into a key only when both sides
\* hold a mapping there; otherwise the override's value replaces the base's
\* wholesale (sequences are not concatenated), and keys the override lacks keep
\* the base's value.
C2_RecurseOnlyIntoMappings ==
    merged_ab # Absent =>
        LET m == merged_ab[2]
        IN  /\ DOMAIN m = DOMAIN A \cup DOMAIN B
            /\ \A k \in DOMAIN m :
                  IF k \notin DOMAIN B THEN m[k] = A[k]
                  ELSE IF k \in DOMAIN A /\ IsDict(A[k]) /\ IsDict(B[k])
                       THEN /\ IsDict(m[k])
                            /\ DOMAIN m[k][2] = DOMAIN A[k][2] \cup DOMAIN B[k][2]
                            /\ \A x \in DOMAIN m[k][2] :
                                  m[k][2][x] = IF x \in DOMAIN B[k][2]
                                               THEN B[k][2][x] ELSE A[k][2][x]
                       ELSE m[k] = B[k]

\* Both sides hold a sequence at output_format, and not the same one.
C2_Witness ==
    /\ AllMappings
    /\ merged_ab # Absent
    /\ Lookup(A, <<"output_format">>)[1] = "l"
    /\ Lookup(B, <<"output_format">>)[1] = "l"
    /\ Lookup(A, <<"output_format">>) # Lookup(B, <<"output_format">>)

\* A layer file that is missing, cannot be read, is malformed, or parses to
\* something that is not a mapping.
Unusable(file) ==
    \/ file[1] \in {"missing", "raises"}
    \/ file[1] = "content" /\ ~IsDict(file[2])

\* C3: for each of the three file layers, if the file is missing, unreadable,
\* malformed or parses to a non-mapping, get_config raises no error and returns
\* exactly what it would return if that file did not exist.
C3_AsClaimed ==
    cfg_result # Absent =>
        /\ IsOk(cfg_result)
        /\ \A l \in Layers :
              Unusable(files[l]) => cfg_result = GetConfig([files EXCEPT ![l] = Missing])

\* The part of C3 the code keeps: a file that is missing, whose open() raises
\* OSError, whose parse raises YAMLError, or that parses to a non-mapping is
\* treated as absent.
C3_HandledKinds ==
    cfg_result # Absent =>
        \A l \in Layers :
            (Unusable(files[l]) /\ files[l] # Raises("UnicodeDecodeError")) =>
                cfg_result = GetConfig([files EXCEPT ![l] = Missing])

-----------------------------------------------------------------------------
(* Claims about the engine boundary and display_status_line *)

TrySteps == {"repos", "servers", "render"}

\* C4: if a step of generate_status_line (collecting the repository statuses,
\* detecting the servers, rendering) raises an exception, generate_status_line
\* raises nothing and returns exactly one line, the fixed setup diagnostic, not
\* the renderer's output; that line is what gets printed.
C4_FailureGivesSetupLine ==
    failed_step \in TrySteps =>
        /\ escaped = "none"
        /\ pc \in {"echo", "done"}
        /\ status_lines = <<SetupNeededLine>>
        /\ pc = "done" => printed = <<SetupNeededLine>>

\* The repositories were collected, server detection then raised, and the
\* setup line has been printed.
C4_Witness ==
    /\ pc = "done"
    /\ failed_step = "servers"
    /\ found_repos # <<>>
    /\ printed = <<SetupNeededLine>>

\* C5: for every effective configuration, one with an output_format,
\* repositories or servers value of an unexpected shape included, and every
\* stdin context object, display_status_line finishes with no exception
\* escaping it.
C5_AsClaimed == pc # "crashed" /\ escaped = "none"

NoneOrEmpty(config, key) == key \notin DOMAIN config \/ config[key] = List(<<>>)

\* C6: when the effective configuration has no repositories and no servers,
\* each key absent or empty, display_status_line prints exactly one line, the
\* fixed "No configuration" diagnostic, and never constructs or runs the
\* StatusLineEngine; its output is never empty.
C6_NoConfigurationLine ==
    (/\ IsOk(cfg_result)
     /\ pc # "guard"
     /\ NoneOrEmpty(cfg_result[2], "repositories")
     /\ NoneOrEmpty(cfg_result[2], "servers")) =>
        /\ pc = "done"
        /\ printed = <<NoConfigurationLine>>
        /\ engine = Absent
        /\ status_lines = <<>>
        /\ failed_step = "none"

\* A run whose configuration holds an empty repositories list and no servers
\* key has printed the diagnostic.
C6_Witness ==
    /\ pc = "done"
    /\ IsOk(cfg_result)
    /\ "repositories" \in DOMAIN cfg_result[2]
    /\ "servers" \notin DOMAIN cfg_result[2]
    /\ cfg_result[2].repositories = List(<<>>)
    /\ printed = <<NoConfigurationLine>>

-----------------------------------------------------------------------------
(* Claims about the repositories the engine collects *)

\* The run has collected the repository statuses without a failure.
Collected == env_disk[1] = "done" /\ pc \in {"servers", "render", "echo", "done"}
               /\ failed_step # "repos"

Configured == Items(cfg_result[2], "repositories")[2]

OnDisk(repo_config) == env_disk[2][repo_config.path]

HasMarker(repo_config) == OnDisk(repo_config).exists /\ OnDisk(repo_config).dotgit

\* C11: get_repo_status returns None, having run no subprocess, whenever the
\* repository path does not exist or holds no .git; the engine drops those
\* repositories and keeps the statuses of the others in configured order.
C11_AbsentDroppedInOrder ==
    Collected =>
        /\ \A n \in 1 .. Len(Configured) :
              ~HasMarker(Configured[n]) =>
                  GetRepoStatus(Configured[n], OnDisk(Configured[n]))
                      = [ret |-> Ok(None), cmds |-> <<>>]
        /\ LET kept == SelectSeq(Configured, HasMarker)
           IN  /\ Len(found_repos) = Len(kept)
               /\ \A n \in 1 .. Len(kept) :
                     /\ found_repos[n].name = kept[n].name
                     /\ found_repos[n].path = kept[n].path

\* Two repositories are configured, the first is a directory without .git, and
\* only the second one's status was kept.
C11_Witness ==
    /\ Collected
    /\ Len(Configured) = 2
    /\ OnDisk(Configured[1]).exists
    /\ ~OnDisk(Configured[1]).dotgit
    /\ Len(found_repos) = 1
    /\ found_repos[1].name = Configured[2].name

\* The server configs of the effective configuration.
ConfiguredServers == Items(cfg_result[2], "servers")[2]

\* The run is over and its configuration lists at least one repository or
\* server, the repositories with their paths and the servers with their ports.
ListsSomething ==
    /\ pc = "done"
    /\ IsOk(cfg_result)
    /\ IsOk(Items(cfg_result[2], "repositories"))
    /\ IsOk(Items(cfg_result[2], "servers"))
    /\ \A n \in 1 .. Len(Configured) : "path" \in DOMAIN Configured[n]
    /\ \A n \in 1 .. Len(ConfiguredServers) : "ports" \in DOMAIN ConfiguredServers[n]
    /\ Len(Configured) + Len(ConfiguredServers) > 0

NoPortActive ==
    \A n \in 1 .. Len(ConfiguredServers) :
        \A port \in Range(ConfiguredServers[n].ports) :
            IsPortActive(port, env_net[2]).ret # Ok(TRUE)

\* C30: when the configuration lists at least one repository or server but
\* every configured repository is absent on disk (no directory, or no .git in
\* it) and no configured port is active, generate_status_line returns the
\* empty sequence and display_status_line prints nothing: neither the
\* "No configuration" line nor the setup line.
C30_NothingToShow ==
    ListsSomething =>
        /\ env_disk[1] = "done"
        /\ (\A n \in 1 .. Len(Configured) : ~HasMarker(Configured[n])) =>
              /\ env_net[1] = "done"
              /\ NoPortActive =>
                    /\ failed_step = "none"
                    /\ status_lines = <<>>
                    /\ printed = <<>>

\* A finished run with a configured repository whose directory is missing and
\* a configured server none of whose ports is bound.
C30_Witness ==
    /\ ListsSomething
    /\ env_disk[1] = "done"
    /\ env_net[1] = "done"
    /\ Len(Configured) > 0
    /\ \A n \in 1 .. Len(Configured) : ~OnDisk(Configured[n]).exists
    /\ Len(ConfiguredServers) > 0
    /\ env_net[2].bound = {}
    /\ printed = <<>>

-----------------------------------------------------------------------------
(* Claims about rendering *)

\* render has returned its lines.
Rendered == pc \in {"echo", "done"} /\ engine[1] = "done"

ColourCodes == {COLORS[c] : c \in DOMAIN COLORS}

\* A line with every colour escape code removed.
StripColours(line) == SelectSeq(line, LAMBDA piece : piece \notin ColourCodes)

ReposHeader == <<"OPEN FILE FOLDER", " Repos ", "BLACK RIGHT-POINTING TRIANGLE", " ">>
ServersHeader == <<"DESKTOP COMPUTER", " Servers ", "BLACK RIGHT-POINTING TRIANGLE", " ">>

IsReposLine(line) == IsPrefix(ReposHeader, line)
IsServersLine(line) == IsPrefix(ServersHeader, line)

Count(seq) == IF Len(seq) > 0 THEN 1 ELSE 0

\* C12: in multiline mode render returns one repositories line iff there are
\* repositories and one servers line iff there are servers, the repositories
\* line first; a line is left out when its collection is empty, so there are
\* 0, 1 or 2 lines.
C12_MultilineLines ==
    (Rendered /\ engine[2].multiline) =>
        /\ Len(status_lines) = Count(found_repos) + Count(found_servers)
        /\ Len(found_repos) > 0 => IsReposLine(status_lines[1])
        /\ Len(found_servers) > 0 => IsServersLine(status_lines[Len(status_lines)])

\* Both collections hold entries and two lines came back, repositories first.
C12_Witness ==
    /\ Rendered
    /\ engine[2].multiline
    /\ Len(found_repos) > 0
    /\ Len(found_servers) > 0
    /\ Len(status_lines) = 2
    /\ IsReposLine(status_lines[1])
    /\ IsServersLine(status_lines[2])

CountText(glyph, n, what) == <<glyph, " ">> \o Str(n) \o <<what>>

\* C13: in single-line mode render returns no line iff both collections are
\* empty, and otherwise exactly one line: the repository count if there are
\* repositories, the server count if there are servers, the fixed delimiter
\* between them when both are there.
C13_SingleLine ==
    (Rendered /\ ~engine[2].multiline) =>
        LET repo_count == CountText("OPEN FILE FOLDER", Len(found_repos), " repos")
            server_count == CountText("DESKTOP COMPUTER", Len(found_servers), " servers")
        IN  status_lines =
              IF Len(found_repos) > 0 /\ Len(found_servers) > 0
              THEN <<repo_count \o <<" ", "BOX DRAWINGS LIGHT VERTICAL", " ">> \o server_count>>
              ELSE IF Len(found_repos) > 0 THEN <<repo_count>>
              ELSE IF Len(found_servers) > 0 THEN <<server_count>>
              ELSE <<>>

\* Single-line mode with two repositories and two servers: one line came back.
C13_Witness ==
    /\ Rendered
    /\ ~engine[2].multiline
    /\ Len(found_repos) = 2
    /\ Len(found_servers) = 2
    /\ Len(status_lines) = 1

\* The segments of a line's text after its header: the pieces between the
\* delimiters.
RECURSIVE Segments(_)
Segments(text) ==
    LET cuts == {n \in 1 .. Len(text) - 2 :
                    SubSeq(text, n, n + 2) = <<" ", "BOX DRAWINGS LIGHT VERTICAL", " ">>}
    IN  IF cuts = {} THEN <<text>>
        ELSE LET n == CHOOSE m \in cuts : \A k \in cuts : m <= k
             IN  <<SubSeq(text, 1, n - 1)>> \o Segments(SubSeq(text, n + 3, Len(text)))

\* The repository segments of the rendered repositories line, colours removed.
RepoSegments ==
    Segments(SubSeq(StripColours(status_lines[1]), Len(ReposHeader) + 1,
                    Len(StripColours(status_lines[1]))))

RepositoriesRendered == Rendered /\ engine[2].multiline /\ Len(found_repos) > 0

\* C14: for every (behind >= 0, has_changes) the status glyph is the dirty
\* glyph if has_changes, whatever behind is; otherwise the far-behind glyph if
\* behind > 5; otherwise the slightly-behind glyph if 1 <= behind <= 5;
\* otherwise the clean glyph.
C14_StatusGlyph ==
    RepositoriesRendered =>
        /\ Len(RepoSegments) = Len(found_repos)
        /\ \A n \in 1 .. Len(found_repos) :
              LET r == found_repos[n]
              IN  RepoSegments[n][1] =
                    IF r.has_changes THEN "LARGE YELLOW CIRCLE"
                    ELSE IF r.behind > 5 THEN "LARGE RED CIRCLE"
                    ELSE IF r.behind >= 1 THEN "WARNING SIGN"
                    ELSE "WHITE HEAVY CHECK MARK"

\* A repository far behind with uncommitted changes was rendered with the
\* dirty glyph.
C14_Witness ==
    /\ RepositoriesRendered
    /\ found_repos[1].has_changes
    /\ found_repos[1].behind > 5
    /\ RepoSegments[1][1] = "LARGE YELLOW CIRCLE"

\* C15: a rendered repository segment holds, after its glyph, the name, a
\* colon, the branch, the suffix "-N" iff behind N > 0, and the marker "*" iff
\* has_changes, in that order; there are as many segments as repositories, in
\* input order.
C15_SegmentLayout ==
    RepositoriesRendered =>
        /\ Len(RepoSegments) = Len(found_repos)
        /\ \A n \in 1 .. Len(found_repos) :
              LET r == found_repos[n]
              IN  Tail(RepoSegments[n]) =
                    <<r.name, ":">> \o r.branch
                      \o (IF r.behind > 0 THEN <<"-">> \o Str(r.behind) ELSE <<>>)
                      \o (IF r.has_changes THEN <<"*">> ELSE <<>>)

\* Two repositories were rendered: the first behind and clean, the second up
\* to date and dirty.
C15_Witness ==
    /\ RepositoriesRendered
    /\ Len(found_repos) = 2
    /\ found_repos[1].behind > 0
    /\ ~found_repos[1].has_changes
    /\ found_repos[2].behind = 0
    /\ found_repos[2].has_changes
    /\ Len(RepoSegments) = 2

StripAll(lines) == [n \in 1 .. Len(lines) |-> StripColours(lines[n])]

\* What render gives for the same input with colours disabled.
Uncoloured == Render(found_repos, found_servers, [engine[2] EXCEPT !.use_colors = FALSE])

\* No name or emoji handed to render is itself a colour escape code.
PlainInput ==
    /\ \A n \in 1 .. Len(found_repos) :
          found_repos[n].name \notin ColourCodes
          /\ \A k \in 1 .. Len(found_repos[n].branch) :
                found_repos[n].branch[k] \notin ColourCodes
    /\ \A n \in 1 .. Len(found_servers) :
          found_servers[n].name \notin ColourCodes
          /\ found_servers[n].emoji \notin ColourCodes

ColoursSetting ==
    Truthy(Get(Get(cfg_result[2], "output_format", Dict(EmptyDict))[2], "colors", Scalar(1)))

HoldsCodes(line) == \E n \in 1 .. Len(line) : line[n] \in ColourCodes

\* C17: colour is on iff output_format.colors is true (true when absent) and
\* NO_COLOR is unset or empty; a non-empty NO_COLOR turns colour off whatever
\* the configuration says.  With colour on the rendered repository fields are
\* wrapped in escape codes, with colour off _colorize hands its text back
\* unchanged and the line holds none.
C17_ColourSwitch ==
    /\ (engine[1] = "done" /\ pc \in {"render", "echo", "done"}) =>
          /\ engine[2].use_colors
               <=> (ColoursSetting /\ env_no_color[2] \in {Unset, <<"set", "">>})
          /\ env_no_color[2] = <<"set", "1">> => ~engine[2].use_colors
    /\ RepositoriesRendered =>
          /\ HoldsCodes(status_lines[1]) <=> engine[2].use_colors
          /\ ~engine[2].use_colors => status_lines[1] = StripColours(status_lines[1])

\* The configuration turns colours on, NO_COLOR holds a value, and the
\* repositories line came out without escape codes.
C17_Witness ==
    /\ RepositoriesRendered
    /\ env_no_color[2] = <<"set", "1">>
    /\ "colors" \in DOMAIN cfg_result[2].output_format[2]
    /\ ColoursSetting
    /\ ~HoldsCodes(status_lines[1])

-----------------------------------------------------------------------------
(* Claims about project identities *)

Identified(i) == identity[i][1] = "done"

\* C18: no identity that get_project_id makes from a git remote URL equals an
\* identity of the path-hash fallback ("local-" and 16 hex digits), for any
\* remote URL and any path.
C18_AsClaimed ==
    \A i, j \in Projects :
        (/\ Identified(i)
         /\ Identified(j)
         /\ identity[i][2].from = "remote"
         /\ identity[j][2].from = "path") => identity[i][2].id # identity[j][2].id

SameRepository(a, b) == a.host = b.host /\ a.org = b.org /\ a.repo = b.repo

\* C19: for every user, host, org and repo, the ssh-style remote
\* user@host:org/repo(.git) and the https-style remote
\* https://host/org/repo(.git) give the same project identity.
C19_AsClaimed ==
    \A i, j \in Projects :
        (/\ Identified(i)
         /\ Identified(j)
         /\ origin[i][1] = "remote"
         /\ origin[j][1] = "remote"
         /\ origin[i][2].form = "ssh"
         /\ origin[j][2].form = "https"
         /\ SameRepository(origin[i][2], origin[j][2])) =>
            identity[i][2].id = identity[j][2].id

\* The part of C19 the code keeps: the ssh form of the user git and the https
\* form of one repository give the same identity.
C19_GitUserOnly ==
    \A i, j \in Projects :
        (/\ Identified(i)
         /\ Identified(j)
         /\ origin[i][1] = "remote"
         /\ origin[j][1] = "remote"
         /\ origin[i][2].form = "ssh"
         /\ origin[i][2].user = GitUser
         /\ origin[j][2].form = "https"
         /\ SameRepository(origin[i][2], origin[j][2])) =>
            identity[i][2].id = identity[j][2].id

Separators == {"/", ":", "@", "-"}

\* A text with each run of one repeated separator character squeezed to one.
RECURSIVE Squeeze(_)
Squeeze(t) ==
    IF Len(t) < 2 THEN t
    ELSE IF t[1] \in Separators /\ t[2] = t[1] THEN Squeeze(Tail(t))
    ELSE <<t[1]>> \o Squeeze(Tail(t))

\* The normalised remote of project i.
RemoteOf(i) == GetGitRemoteUrl(OriginRun(origin[i]))[2]

\* C20: two distinct remotes get the same project identity only when they
\* differ solely by runs of repeated separator characters; in every other
\* case distinct remotes get distinct identities.
C20_AsClaimed ==
    \A i, j \in Projects :
        (/\ Identified(i)
         /\ Identified(j)
         /\ identity[i][2].from = "remote"
         /\ identity[j][2].from = "remote"
         /\ RemoteOf(i) # RemoteOf(j)
         /\ identity[i][2].id = identity[j][2].id) =>
            Squeeze(RemoteOf(i)) = Squeeze(RemoteOf(j))

\* The characters of a file name stem: word characters, hyphens and dots.
StemChars ==
    {LowerCase[n] : n \in 1 .. Len(LowerCase)} \cup {UpperCase[n] : n \in 1 .. Len(UpperCase)}
      \cup {Digits[n] : n \in 1 .. Len(Digits)} \cup {"_", "-", "."}

WellFormedStem(id) ==
    /\ \A n \in 1 .. Len(id) : id[n] \in StemChars
    /\ \A n \in 1 .. Len(id) - 1 : ~(id[n] = "-" /\ id[n + 1] = "-")
    /\ id # <<>> => id[1] # "-" /\ id[Len(id)] # "-"

\* C21: every identity get_project_id returns, for any remote URL or path, is
\* usable as a file name stem: not empty, made only of word characters,
\* hyphens and dots (so no path separator), with no two hyphens in a row and
\* no hyphen first or last.
C21_AsClaimed ==
    \A i \in Projects :
        Identified(i) => identity[i][2].id # <<>> /\ WellFormedStem(identity[i][2].id)

\* The part of C21 the code keeps: an identity holds only word characters,
\* hyphens and dots, no two hyphens in a row and none first or last; it may
\* be empty.
C21_WellFormed ==
    \A i \in Projects : Identified(i) => WellFormedStem(identity[i][2].id)

-----------------------------------------------------------------------------
(* Claims about saving and deleting configuration files *)

\* The file holds a timestamp field written at second t.
Stamped(file, t) ==
    /\ file[1] = "content"
    /\ "updated_at" \in DOMAIN file[2][2]
    /\ file[2][2].updated_at = Strftime(t)

LastOp == last_call[2].op

\* C22: after any save operation (save_global_config, save_project_config,
\* save_local_config) the layer file it wrote holds a timestamp field set at
\* the time of that save.
C22_AsClaimed ==
    /\ LastOp = "save_global_config" => Stamped(files["global"], last_call[2].at)
    /\ LastOp = "save_local_config" => Stamped(files["local"], last_call[2].at)
    /\ LastOp = "save_project_config" =>
           Stamped(project_files[last_call[2].id], last_call[2].at)

\* The part that holds: a per-project save stamps its file.
C22_ProjectSaveStamped ==
    LastOp = "save_project_config" =>
        Stamped(project_files[last_call[2].id], last_call[2].at)

\* C23: delete_project_config(id), after any saves and deletes, returns true
\* exactly when a file for id existed; afterwards get_project_config(id) is
\* absent, list_projects has no entry with that id, the files of the other
\* identities are as before, and a delete of the same id directly after a
\* delete returns false.
C23_DeleteProjectConfig ==
    LastOp = "delete_project_config" =>
        LET id == last_call[2].id
            before == last_call[2].before[2]
        IN  /\ last_call[2].ret = (before[id] # Missing)
            /\ GetProjectConfig(project_files, id) = Ok(None)
            /\ \A entry \in ListProjects(project_files) : entry.id # <<"stem", id>>
            /\ \A other \in ProjectIds \ {id} : project_files[other] = before[other]
            /\ last_call[2].prev = <<"delete_project_config", id>> => ~last_call[2].ret

\* A delete that removed a file written by save_project_config while the file
\* of another identity was in place.
C23_Witness ==
    /\ LastOp = "delete_project_config"
    /\ last_call[2].ret
    /\ Stamped(last_call[2].before[2][last_call[2].id], 1)
    /\ \E other \in ProjectIds \ {last_call[2].id} : project_files[other] # Missing

-----------------------------------------------------------------------------
(* Claims about server detection *)

\* C7: detect_servers returns at most one entry per input config, and the
\* entries come in the order of their configs: the configs the entries come
\* from have strictly increasing indices, and each entry carries its config's
\* name and glyph and one of its ports.
C7_OnePerConfigInOrder ==
    (Called(detected) /\ IsOk(detected[2].ret)) =>
        LET servers == detected[2].ret[2]
            src == detected[2].src
        IN  /\ Len(src) = Len(servers)
            /\ Len(servers) <= Len(det_configs)
            /\ \A m, n \in 1 .. Len(src) : m < n => src[m] < src[n]
            /\ \A n \in 1 .. Len(src) :
                  /\ src[n] \in 1 .. Len(det_configs)
                  /\ servers[n].name = det_configs[src[n]].name
                  /\ servers[n].emoji = det_configs[src[n]].emoji
                  /\ servers[n].port \in Range(det_configs[src[n]].ports)

\* Two enabled configs, each listing both ports, with both ports bound.
C7_Witness ==
    /\ Called(detected)
    /\ IsOk(detected[2].ret)
    /\ Len(det_configs) = 2
    /\ \A i \in 1 .. 2 : Enabled(det_configs[i]) /\ Len(det_configs[i].ports) = 2
    /\ det_net.bound = Ports
    /\ Len(detected[2].ret[2]) = 2

\* A probe of this port on this machine says active.
ProbesActive(port) == IsPortActive(port, det_net).ret = Ok(TRUE)

\* C8: a config whose enabled flag is false never appears in the result of
\* detect_servers, whichever of its ports are active, and a config without an
\* enabled key is treated as enabled: it appears when one of its ports is active.
C8_DisabledNeverDetected ==
    (Called(detected) /\ IsOk(detected[2].ret)) =>
        \A i \in 1 .. Len(det_configs) :
            LET config == det_configs[i]
            IN  /\ ("enabled" \in DOMAIN config /\ config.enabled = FALSE)
                      => i \notin Range(detected[2].src)
                /\ ("enabled" \notin DOMAIN config
                      /\ \E port \in Range(config.ports) : ProbesActive(port))
                      => i \in Range(detected[2].src)

\* A disabled config with an active port beside a detected config that has no
\* enabled key.
C8_Witness ==
    /\ Called(detected)
    /\ IsOk(detected[2].ret)
    /\ \E i, k \in 1 .. Len(det_configs) :
          /\ "enabled" \in DOMAIN det_configs[i]
          /\ ~det_configs[i].enabled
          /\ \E port \in Range(det_configs[i].ports) : ProbesActive(port)
          /\ "enabled" \notin DOMAIN det_configs[k]
          /\ k \in Range(detected[2].src)

\* The port indices detect_servers probed for the config of index i, in order.
ProbedOf(i) ==
    LET OfConfig(p) == p[1] = i
        own == SelectSeq(detected[2].probes, OfConfig)
    IN  [n \in 1 .. Len(own) |-> own[n][2]]

\* The index of the first port of the list that a probe finds active, or 0.
FirstActive(ports) ==
    IF \E n \in 1 .. Len(ports) : ProbesActive(ports[n])
    THEN CHOOSE n \in 1 .. Len(ports) :
             /\ ProbesActive(ports[n])
             /\ \A m \in 1 .. n - 1 : ~ProbesActive(ports[m])
    ELSE 0

\* C24: for each enabled config, detect_servers probes the ports in declared
\* order (the ports probed are a prefix of the list), the reported port is the
\* first of the list that a probe finds active and no port after it is
\* probed, and a config none of whose ports is found active yields no entry.
C24_FirstActivePort ==
    (Called(detected) /\ IsOk(detected[2].ret)) =>
        \A i \in 1 .. Len(det_configs) :
            Enabled(det_configs[i]) =>
                LET ports == det_configs[i].ports
                    first == FirstActive(ports)
                    probed == ProbedOf(i)
                IN  /\ \A n \in 1 .. Len(probed) : probed[n] = n
                    /\ first = 0 => /\ Len(probed) = Len(ports)
                                    /\ i \notin Range(detected[2].src)
                    /\ first # 0 =>
                          /\ Len(probed) = first
                          /\ \E n \in 1 .. Len(detected[2].src) :
                                /\ detected[2].src[n] = i
                                /\ detected[2].ret[2][n].port = ports[first]

\* A detected config whose second port is the first active one, beside a
\* config with ports of which none is active.
C24_Witness ==
    /\ Called(detected)
    /\ IsOk(detected[2].ret)
    /\ \E i, k \in 1 .. Len(det_configs) :
          /\ Enabled(det_configs[i])
          /\ FirstActive(det_configs[i].ports) = 2
          /\ ProbedOf(i) = <<1, 2>>
          /\ Enabled(det_configs[k])
          /\ det_configs[k].ports # <<>>
          /\ FirstActive(det_configs[k].ports) = 0

\* What running a tool did on this machine.
ToolStatus(tool) == IF tool = "lsof" THEN det_net.lsof ELSE det_net.netstat

\* C9: a probe whose last tool failed (missing, timeout, OS error) returns
\* false and raises nothing, to detect_servers either; off Windows the netstat
\* probe is run when, and only when, lsof could not be launched.
C9_ProbeFailureIsInactive ==
    /\ Called(det_probe) =>
          LET res == det_probe[2].res
          IN  /\ IsOk(res.ret)
              /\ ToolStatus(res.tools[Len(res.tools)]) # "ok" => res.ret = Ok(FALSE)
              /\ det_net.platform # "win32" =>
                    /\ res.tools[1] = "lsof"
                    /\ ("netstat" \in Range(res.tools))
                          <=> (det_net.lsof \in {"FileNotFoundError", "OSError"})
    /\ Called(detected) => IsOk(detected[2].ret)

\* lsof timed out on a machine where netstat works and would show the port.
C9_Witness ==
    /\ Called(det_probe)
    /\ Called(detected)
    /\ det_net.platform = "linux"
    /\ det_net.lsof = "TimeoutExpired"
    /\ det_net.netstat = "ok"
    /\ det_probe[2].port \in det_net.bound
    /\ det_probe[2].res.ret = Ok(FALSE)

\* C28: _is_port_active(p) returns true only if a socket is bound to port p
\* itself, on the lsof path and on the netstat path: a socket on another port
\* whose decimal text contains the text of p does not make p active.
C28_AsClaimed ==
    (Called(det_probe) /\ det_probe[2].res.ret = Ok(TRUE)) =>
        det_probe[2].port \in det_net.bound

\* The part of C28 the code keeps: the lsof path.
C28_LsofPath ==
    (Called(det_probe) /\ det_probe[2].res.ret = Ok(TRUE)
       /\ det_probe[2].res.tools = <<"lsof">>) =>
        det_probe[2].port \in det_net.bound

-----------------------------------------------------------------------------
(* Claims about the git status collector *)

\* The rev-list query of this repository, as run_git_command reports it.
BehindRun == RunGitCommand(git_repo.revlist)

\* A decimal number: one or more of the digits 0 to 9.
IsDecimalText(t) == t # <<>> /\ \A i \in 1 .. Len(t) : t[i] \in AsciiDigits

\* C10: in every RepoStatus returned by get_repo_status, behind is an integer
\* >= 0, and 0 whenever the rev-list query fails or its output is not a
\* decimal number; get_repo_status never raises because of that output.
C10_AsClaimed ==
    Called(git_result) =>
        LET ret == git_result[2].ret
        IN  /\ IsOk(ret)
            /\ ~IsNone(ret[2]) =>
                  /\ ret[2][2].behind \in Nat
                  /\ (~BehindRun[2] \/ ~IsDecimalText(BehindRun[1])) => ret[2][2].behind = 0

\* The part of C10 the code keeps: whenever a RepoStatus is returned, behind is
\* an integer >= 0, the number printed when the query succeeds with a decimal
\* number and 0 otherwise.
C10_ReturnedBehind ==
    (Called(git_result) /\ IsOk(git_result[2].ret) /\ ~IsNone(git_result[2].ret[2])) =>
        LET behind == git_result[2].ret[2][2].behind
        IN  /\ behind \in Nat
            /\ (~BehindRun[2] \/ ~IsDecimalText(BehindRun[1])) => behind = 0
            /\ (BehindRun[2] /\ IsDecimalText(BehindRun[1])) => Str(behind) = Str(DecimalValue(BehindRun[1]))

\* The queries of this repository, as run_git_command reports them.
SymRefRun == RunGitCommand(git_repo.symref)
RevParseRun == RunGitCommand(git_repo.revparse)
StatusRun == RunGitCommand(git_repo.status)

Returned(v) == Called(v) /\ IsOk(v[2].ret) /\ ~IsNone(v[2].ret[2])

\* C25: the branch label is the symbolic-ref short name when that query
\* succeeds; when it fails, the abbreviated hash if the rev-parse query
\* succeeds; when both fail, whatever they wrote to standard output, exactly
\* "detached"; rev-parse is run only after symbolic-ref has failed.
C25_AsClaimed ==
    /\ Returned(git_result) =>
          LET branch == git_result[2].ret[2][2].branch
          IN  /\ SymRefRun[2] => branch = SymRefRun[1]
              /\ (~SymRefRun[2] /\ RevParseRun[2]) => branch = RevParseRun[1]
              /\ (~SymRefRun[2] /\ ~RevParseRun[2]) => branch = Detached
    /\ Called(git_result) =>
          ("rev-parse" \in Range(git_result[2].cmds) => ~SymRefRun[2])

\* The part of C25 the code keeps: the label is the output of symbolic-ref
\* when it succeeds and else the output of rev-parse, succeeded or not, and
\* "detached" when that output is empty; rev-parse runs only after a failed
\* symbolic-ref.
C25_LabelAsCoded ==
    /\ Returned(git_result) =>
          LET branch == git_result[2].ret[2][2].branch
              output == IF SymRefRun[2] THEN SymRefRun[1] ELSE RevParseRun[1]
          IN  branch = IF output # <<>> THEN output ELSE Detached
    /\ Called(git_result) =>
          ("rev-parse" \in Range(git_result[2].cmds) => ~SymRefRun[2])

\* The repository passes the precondition check of get_repo_status.
PassesPrecondition == git_repo.exists /\ git_repo.dotgit

AllProbesRun ==
    {"symbolic-ref", "rev-list", "status"} \subseteq Range(git_result[2].cmds)

\* C26: for a repository that passes the precondition check, the branch, the
\* behind-count and the dirty-state probe are each run whatever the outcome of
\* the others, a RepoStatus is always returned, and has_changes is true
\* exactly when the status query produced non-empty output.
C26_AsClaimed ==
    (Called(git_result) /\ PassesPrecondition) =>
        /\ AllProbesRun
        /\ Returned(git_result)
        /\ git_result[2].ret[2][2].has_changes = (StatusRun[1] # <<>>)

\* The part of C26 the code keeps: the same, unless the rev-list query
\* succeeded with digits that int() rejects.
C26_UnlessBehindRaises ==
    (Called(git_result) /\ PassesPrecondition
       /\ ~(BehindRun[2] /\ IsDigitText(BehindRun[1]) /\ ~IsDecimalText(BehindRun[1]))) =>
        /\ AllProbesRun
        /\ Returned(git_result)
        /\ git_result[2].ret[2][2].has_changes = (StatusRun[1] # <<>>)

\* C27: every git subprocess of get_repo_status runs with the repository path
\* as working directory and with standard input not inherited from the
\* parent process.
C27_AsClaimed ==
    Called(git_result) =>
        \A n \in 1 .. Len(git_result[2].cmds) :
            LET child == GitProcesses(git_config, git_repo)[n]
            IN  /\ child.cmd = git_result[2].cmds[n]
                /\ child.cwd = git_config.path
                /\ child.stdin # "inherited"

\* The part of C27 the code keeps: the working directory.
C27_WorkingDirectory ==
    Called(git_result) =>
        \A n \in 1 .. Len(git_result[2].cmds) :
            LET child == GitProcesses(git_config, git_repo)[n]
            IN  /\ child.cmd = git_result[2].cmds[n]
                /\ child.cwd = git_config.path

-----------------------------------------------------------------------------
(* Claims about one pass of the collectors *)

NoRepeat(seq) == \A m, n \in 1 .. Len(seq) : m # n => seq[m] # seq[n]

\* C29: within one pass there are no retries: no git query of a kind is run
\* twice for a repository and no port entry of a server config is probed
\* twice, and the default of a failed probe is final: behind is 0 after a
\* failed rev-list, has_changes false after a status query that failed with
\* no output, and a port whose probe did not find it active is not reported
\* for that config.
C29_NoRetries ==
    /\ Called(git_result) =>
          /\ NoRepeat(git_result[2].cmds)
          /\ Returned(git_result) =>
                /\ ~BehindRun[2] => git_result[2].ret[2][2].behind = 0
                /\ (~StatusRun[2] /\ StatusRun[1] = <<>>) =>
                      ~git_result[2].ret[2][2].has_changes
    /\ Called(detected) =>
          /\ NoRepeat(detected[2].probes)
          /\ IsOk(detected[2].ret) =>
                \A k \in 1 .. Len(detected[2].probes) :
                    LET i == detected[2].probes[k][1]
                        port == det_configs[i].ports[detected[2].probes[k][2]]
                    IN  ~ProbesActive(port) =>
                            \A n \in 1 .. Len(detected[2].src) :
                                detected[2].src[n] = i => detected[2].ret[2][n].port # port

\* Both collectors have run: the rev-list query timed out, and both tools
\* failed on the two ports of a config while a port was bound.
C29_Witness ==
    /\ Returned(git_result)
    /\ git_repo.revlist = TimedOut
    /\ Called(detected)
    /\ IsOk(detected[2].ret)
    /\ det_net.lsof = "FileNotFoundError"
    /\ det_net.netstat = "TimeoutExpired"
    /\ det_net.bound = {80}
    /\ \E i \in 1 .. Len(det_configs) : ProbedOf(i) = <<1, 2>>

====
